---------------------------- MODULE Spec2Model ----------------------------
(***************************************************************************)
(* The remote-hardware bridge of storm-control                             *)
(* (sc_hardware/baseClasses/remoteHardware.py): the HAL side               *)
(* (RemoteHardwareModule), the remote side (RemoteHardwareServer and       *)
(* RemoteHardwareServerModule) and the two zmq PAIR sockets between them.  *)
(*                                                                         *)
(* socket_remote carries requests HAL -> remote (reqChan) and the          *)
(* synchronous replies remote -> HAL (repChan); socket_hal carries the     *)
(* 'out of cycle' messages remote -> HAL (notChan).  Each side is one      *)
(* Qt thread: HAL blocks in recv_zipped_pickle() inside processMessage,    *)
(* the remote handler runs to completion on the remote thread, and the     *)
(* two threads interleave.                                                 *)
(***************************************************************************)
EXTENDS Integers, Sequences, FiniteSets, TLC

\* Bounds of the model.
NMsgs == 2        \* host messages HAL submits to the bridge
NObjects == 3     \* objects whose slots connect to a SignalCounter
MaxSlots == 2     \* connections one object keeps to the signal
MaxPolls == 2     \* polls of a running image writer for one "stop film"
NTcp == 2         \* TCP messages delivered to the focus lock
MaxChecks == 1    \* num_focus_checks of a "Check Focus Lock" message
MaxTarget == 2    \* lock targets the lock reports
ZMax == 3         \* the largest z_max of the Zaber stage's limits
UnitsPerUm == 2   \* um_to_unit of the Zaber stage
ChecksAfterScan == 50  \* num_checks after a successful scan
MaxResp == 1      \* responses a handler adds to one wire message
MaxNote == 1      \* out of cycle messages waiting on socket_hal
MaxReq == 1       \* messages waiting on socket_remote when a tagged list is sent

Msgs == 1..NMsgs
None == 0

(***************************************************************************)
(* Values that travel through the sockets.  Pickling copies by value, so   *)
(* a message in a channel is a snapshot taken when it was sent.            *)
(***************************************************************************)
Payload(k, i, rs, es, t) ==
    [kind |-> k, id |-> i, responses |-> rs, errors |-> es, tag |-> t]

\* RemoteHALMessage(hal_message): empty responses and errors, same m_id.
RemoteHALMessage(m) == Payload("rmsg", m, <<>>, <<>>, "")

\* A RemoteHALMessage object of the remote process, pickled for sending.
Pickle(i, obj) == Payload("rmsg", i, obj.responses, obj.errors, "")

WaitToken == Payload("wait", None, <<>>, <<>>, "")
NoneValue == Payload("none", None, <<>>, <<>>, "")
TaggedList(t) == Payload("list", None, <<>>, <<>>, t)
\* Not a value of the program: 'nothing was sent' in the call records.
Nothing == Payload("nothing", None, <<>>, <<>>, "")

IsRemoteHALMessage(x) == x.kind = "rmsg"

\* The module names that end up in the source field of an entry.
LocalName == "hal_module"
RemoteName == "remote_module"

\* HalMessageResponse(source, data)
HalMessageResponse(s, d) == [source |-> s, data |-> d]

\* HalMessageError(source, message, m_exception, stack_trace)
HalMessageError(s, e) == [source |-> s, message |-> e, stack_trace |-> e]

EmptyObj == [responses |-> <<>>, errors |-> <<>>]
NewHalMessage == [ref |-> 0, responses |-> <<>>, errors |-> <<>>]

VARIABLES
    \* ---- RemoteHardwareModule (HAL side)
    hal_message,   \* self.hal_message: the pending host message, or None
    worker,        \* self.worker is not None
    lpc,           \* "idle", or "recv": blocked in processMessage's recv
    lmsg,          \* the host message processMessage was called with
    hal,           \* host messages: bridge's net incRefCount, responses, errors
    nsub,          \* host messages submitted so far
    \* ---- the sockets
    reqChan, repChan, notChan,
    \* ---- RemoteHardwareServerModule (remote side)
    r_message,     \* self.r_message: id of the held wire message, or None
    robj,          \* the unpickled RemoteHALMessage objects, by m_id
    hpc,           \* "ready" (event loop), "pre" / "post": inside processMessage
    rcur,          \* the wire message being dispatched
    \* ---- records of what the calls did (observation only)
    call,          \* the last processMessage call of the HAL side
    ev,            \* the last call on the remote module
    dsp,           \* the last dispatch of the server: kind and replies sent
    ops,           \* the last two hold / release calls that did not raise
    copied,        \* host message -> ids of the wire messages copied into it
    overlap,       \* a request was submitted while another was pending
    lexc,          \* an exception left the HAL side's notify handler
    \* ---- RemoteHALMessage construction
    data,          \* hal_message.data of the host message being converted
    wire,          \* self.data of the RemoteHALMessage built from it
    \* ---- a 'sendMessage' notification turned into a host message and back
    wmsg,          \* the RemoteHALMessage received in ["sendMessage", ...]
    hmsg,          \* the HalMessage remoteMessage builds from it
    back,          \* the RemoteHALMessage built from that HalMessage
    \* ---- RemoteCamera / RemoteCameraServer
    connected,     \* RemoteCameraServer.connected
    n_sent,        \* RemoteCameraServer.n_sent: frames sent and not acknowledged
    n_lost,        \* RemoteCameraServer.n_lost
    fired,         \* hardware signals forwarded since the last poll (observation)
    emitted,       \* signals the last poll emitted locally (observation)
    hostlog,       \* what the local bridge did in the host (observation)
    m_type,        \* the type of each host message sent to the camera
    \* ---- sessions
    session,       \* RemoteHardwareModules that have connected after the first
    \* ---- SignalCounter
    connections,   \* self.connections: the objects in the dictionary
    slots,         \* object -> its slots connected to self.signal
    notified,      \* what the last connect / disconnect call did (observation)
    lastNotified,  \* the last value connected emitted, or "none" (observation)
    \* ---- RemoteCameraServer, saving remotely
    remote_save,   \* self.remote_save (None counts as False)
    writer,        \* self.writer: "none", or the state of the image writer
    closes,        \* closeWriter calls on the writer created last (observation)
    writer_stopped_timer,  \* the single-shot timer is running
    n_polls,       \* handleStopWriter calls that found the writer running
    \* ---- axiconFl FocusLockControl
    focus,         \* the object: current_state, its timers, and what it did
    \* ---- ZaberZRS232
    limits,        \* self.limits: z_min and z_max
    coarse_position, fine_position,
    moved          \* the last zMoveCoarse / zMoveFine call (observation)

lvars == <<hal_message, worker, lpc, lmsg, hal, nsub>>
chans == <<reqChan, repChan, notChan>>
rvars == <<r_message, robj, hpc, rcur>>
obs == <<call, ev, dsp, ops, copied, overlap, lexc>>
cvars == <<data, wire>>
rtvars == <<wmsg, hmsg, back>>
\* The parts that are pure conversions.
camvars == <<connected, n_sent, n_lost, fired, emitted, hostlog, m_type>>
scvars == <<connections, slots, notified, lastNotified>>
filmvars == <<remote_save, writer, closes, writer_stopped_timer, n_polls>>
zvars == <<limits, coarse_position, fine_position, moved>>
dvars == <<scvars, filmvars, focus, zvars>>
pvars == <<cvars, rtvars, camvars, session, dvars>>
\* Everything but the devices.
bvars == <<lvars, chans, rvars, obs, cvars, rtvars, camvars, session>>
vars == <<lvars, chans, rvars, obs, pvars>>

\* The strings of the close handshake.
CloseEvent == Payload("str", None, <<>>, <<>>, "close event")
AckToken == Payload("str", None, <<>>, <<>>, "ack")

\* A value of a message's data: a primitive, a QObject, a dict or a list,
\* with the key k it has in the dict that holds it (0 in a list and at the
\* top) and its values c, in order.
Node(t, k, c) == [t |-> t, k |-> k, c |-> c]
\* hal_message.data is None.
NoData == Node("none", 0, <<>>)
\* No RemoteHALMessage has been built.
NotBuilt == Node("unset", 0, <<>>)

NoCall == [msg |-> None, pend |-> None, resp |-> Nothing, outcome |-> "none"]
NoEv == [op |-> "none", ok |-> TRUE, arg |-> None, held |-> None, exc |-> ""]
NoDsp == [kind |-> "none", replies |-> <<>>]

BridgeInit ==
    /\ hal_message = None
    /\ worker = FALSE
    /\ lpc = "idle"
    /\ lmsg = None
    /\ hal = [m \in Msgs |-> NewHalMessage]
    /\ nsub = 0
    /\ reqChan = <<>>
    /\ repChan = <<>>
    /\ notChan = <<>>
    /\ r_message = None
    /\ robj = [m \in Msgs |-> EmptyObj]
    /\ hpc = "ready"
    /\ rcur = None
    /\ call = NoCall
    /\ ev = NoEv
    /\ dsp = NoDsp
    /\ ops = <<"none", "none">>
    /\ copied = [m \in Msgs |-> {}]
    /\ overlap = FALSE
    /\ lexc = FALSE

\* A message: id, type, name of the source module and data.
Message(i, ty, src, d) ==
    [m_id |-> i, m_type |-> ty, source |-> src, data |-> d]
\* No message (yet).
NoMessage == Message(None, "", "", NotBuilt)

\* No message is being converted.
\* RemoteCameraServer.__init__: not connected, nothing sent or lost.
CameraIdle ==
    /\ connected = FALSE
    /\ n_sent = 0
    /\ n_lost = 0
    /\ fired = <<>>
    /\ emitted = <<>>
    /\ hostlog = <<>>
    /\ m_type = [m \in Msgs |-> ""]

\* SignalCounter.__init__: no connections.
Objects == 1..NObjects

NoNotify == [op |-> "none", obj |-> 0, raised |-> FALSE, emitted |-> "none"]

CounterIdle ==
    /\ connections = {}
    /\ slots = [o \in Objects |-> 0]
    /\ notified = NoNotify
    /\ lastNotified = "none"

\* RemoteCameraServer.__init__: remote_save and writer are None, the timer
\* is not started.
FilmIdle ==
    /\ remote_save = FALSE
    /\ writer = "none"
    /\ closes = 0
    /\ writer_stopped_timer = FALSE
    /\ n_polls = 0

TcpMsgs == 1..NTcp

\* self.current_state = None
NoState ==
    [already_scanned |-> FALSE, locked |-> FALSE, lock_target |-> 0,
     num_checks |-> 0, message |-> None, tcp_message |-> "",
     focus_scan |-> FALSE]

\* FocusLockControl.__init__; ref is each message's reference count less
\* its value when handleTCPMessage is entered, log the incRefCount and
\* decRefCount calls on it, lock the target of the last "lock" command,
\* scans the scanForSum commands for the request, done how the last request
\* was completed.
FocusIdle ==
    focus = [current_state |-> NoState,
             check_focus_timer |-> FALSE,
             scan_for_sum_timer |-> FALSE,
             delivered |-> 0,
             ref |-> [m \in TcpMsgs |-> 0],
             log |-> [m \in TcpMsgs |-> <<>>],
             lock |-> 0,
             scans |-> 0,
             done |-> [by |-> "none", success |-> FALSE, message |-> None]]

\* No move has been made.
NoMove == [op |-> "none", z |-> 0, abs |-> 0, units |-> 0, ok |-> FALSE]

\* ZaberZRS232.__init__ with the stage reporting position 0.
ZaberIdle ==
    /\ limits = [z_min |-> 0, z_max |-> ZMax]
    /\ coarse_position = 0
    /\ fine_position = 0
    /\ moved = NoMove

DevicesIdle == CounterIdle /\ FilmIdle /\ FocusIdle /\ ZaberIdle

CodecIdle ==
    /\ data = NoData
    /\ wire = NotBuilt
    /\ wmsg = NoMessage
    /\ hmsg = NoMessage
    /\ back = NoMessage
    /\ CameraIdle
    /\ session = 0
    /\ DevicesIdle

Init == BridgeInit /\ CodecIdle


(***************************************************************************)
(* RemoteHardwareModule: the HAL side.                                     *)
(***************************************************************************)

\* A variant of the copy loop without elt.source = self.module_name.
SetSourceKeeps(entries, name) == entries

\* elt.source = self.module_name, for each entry in order.
SetSource(entries, name) ==
    [i \in 1..Len(entries) |-> [entries[i] EXCEPT !.source = name]]

\* copyResponses(r_message, hal_message): h is the host message's record.
CopyResponses(r, h) ==
    [h EXCEPT !.responses = @ \o SetSource(r.responses, LocalName),
              !.errors = @ \o SetSource(r.errors, LocalName)]

\* createRemoteMessage(message)
CreateRemoteMessage(m) == RemoteHALMessage(m)

\* The HAL side's state as one value, so that a handler is a function of it.
LocalState ==
    [hal_message |-> hal_message, worker |-> worker, hal |-> hal,
     copied |-> copied, exc |-> FALSE]

\* A variant of ReplyImmediate with the else branch's bookkeeping run as
\* well: the message is also counted and registered.
ReplyImmediateRegisters(L, m, resp) ==
    [L EXCEPT !.hal[m] = [CopyResponses(resp, @) EXCEPT !.ref = @ + 1],
              !.copied[m] = @ \cup {resp.id},
              !.hal_message = m,
              !.worker = TRUE]

\* processMessage after recv: the reply is a RemoteHALMessage.
ReplyImmediate(L, m, resp) ==
    [L EXCEPT !.hal[m] = CopyResponses(resp, @),
              !.copied[m] = @ \cup {resp.id}]

\* processMessage after recv: anything else, usually "wait".  The reference
\* count and self.hal_message are set before the assertion on self.worker.
ReplyDeferred(L, m) ==
    [L EXCEPT !.hal[m].ref = @ + 1,
              !.hal_message = m,
              !.worker = TRUE,
              !.exc = L.worker]

\* A variant of processMessage in which a synchronous reply cancels the
\* request that is pending.
ProcessReplyCancels(L, m, resp) ==
    IF IsRemoteHALMessage(resp)
    THEN [ReplyImmediate(L, m, resp) EXCEPT !.hal_message = None,
                                            !.worker = FALSE]
    ELSE ReplyDeferred(L, m)

\* processMessage, from the recv on.
ProcessReply(L, m, resp) ==
    IF IsRemoteHALMessage(resp)
    THEN ReplyImmediate(L, m, resp)
    ELSE ReplyDeferred(L, m)

\* A variant of the delayed response that copies and decrements but leaves
\* the request pending.
DelayedResponseStaysPending(L, r) ==
    IF L.hal_message = None
    THEN [L EXCEPT !.exc = TRUE]
    ELSE [L EXCEPT !.hal[L.hal_message] =
                        [CopyResponses(r, @) EXCEPT !.ref = @ - 1],
                   !.copied[L.hal_message] = @ \cup {r.id}]

\* remoteMessage(r_message) for a RemoteHALMessage: the delayed response.
\* With self.hal_message None the first attribute access on it raises.
DelayedResponse(L, r) ==
    IF L.hal_message = None
    THEN [L EXCEPT !.exc = TRUE]
    ELSE [L EXCEPT !.hal[L.hal_message] =
                        [CopyResponses(r, @) EXCEPT !.ref = @ - 1],
                   !.copied[L.hal_message] = @ \cup {r.id},
                   !.hal_message = None,
                   !.worker = FALSE]

\* A variant of remoteMessage that takes whatever arrives on the notify
\* path for the delayed response.
RemoteMessageAnyCompletes(L, r) == DelayedResponse(L, r)

\* remoteMessage(r_message)
RemoteMessage(L, r) ==
    IF IsRemoteHALMessage(r)
    THEN DelayedResponse(L, r)
    ELSE L      \* a list that is not 'sendMessage', a string, None

\* handleCheckMessageTimer's for loop; an exception ends the loop.
RECURSIVE RemoteMessages(_, _)
RemoteMessages(L, rs) ==
    IF rs = <<>> \/ L.exc
    THEN L
    ELSE RemoteMessages(RemoteMessage(L, Head(rs)), Tail(rs))

\* The host messages the bridge still refers to when HAL calls it again:
\* the pending one.  HAL has taken the others back with what was appended
\* to them; the record keeps only the bridge's net reference count.
InUse ==
    [m \in Msgs |-> IF m = hal_message THEN hal[m]
                    ELSE [NewHalMessage EXCEPT !.ref = hal[m].ref]]

\* processMessage up to the blocking recv (lines 196-206).
ProcessMessageSend ==
    /\ lpc = "idle"
    /\ nsub < NMsgs
    /\ nsub' = nsub + 1
    /\ lmsg' = nsub + 1
    /\ lpc' = "recv"
    /\ reqChan' = Append(reqChan, CreateRemoteMessage(nsub + 1))
    /\ call' = [msg |-> nsub + 1, pend |-> hal_message,
                resp |-> Nothing, outcome |-> "none"]
    /\ overlap' = (overlap \/ hal_message # None)
    /\ hal' = InUse
    /\ UNCHANGED <<hal_message, worker, repChan, notChan,
                   rvars, ev, dsp, ops, copied, lexc>>
    /\ UNCHANGED pvars

\* processMessage from the recv to its return or its AssertionError.
ProcessMessageRecv ==
    /\ lpc = "recv"
    /\ repChan # <<>>
    /\ LET resp == Head(repChan)
           L == ProcessReply(LocalState, lmsg, resp)
       IN  /\ hal_message' = L.hal_message
           /\ worker' = L.worker
           /\ hal' = L.hal
           /\ copied' = L.copied
           /\ call' = [call EXCEPT !.resp = resp,
                          !.outcome = IF L.exc THEN "raised" ELSE "returned"]
    /\ repChan' = Tail(repChan)
    /\ lpc' = "idle"
    /\ UNCHANGED <<lmsg, nsub, reqChan, notChan, rvars,
                   ev, dsp, ops, overlap, lexc>>
    /\ UNCHANGED pvars

\* RemoteHardwareModule.handleCheckMessageTimer: drain socket_hal, then
\* handle the messages in the order received.
CheckMessageTimer ==
    /\ lpc = "idle"
    /\ notChan # <<>>
    /\ LET L == RemoteMessages(LocalState, notChan)
       IN  /\ hal_message' = L.hal_message
           /\ worker' = L.worker
           /\ hal' = L.hal
           /\ copied' = L.copied
           /\ lexc' = (lexc \/ L.exc)
    /\ notChan' = <<>>
    /\ UNCHANGED <<lpc, lmsg, nsub, repChan, rvars,
                   call, ev, dsp, ops, overlap>>

\* The timer's slot in a module that adds nothing to remoteMessage.
HandleCheckMessageTimer ==
    /\ CheckMessageTimer
    /\ UNCHANGED reqChan
    /\ UNCHANGED pvars

\* A tagged list on socket_remote (RemoteCamera.handleConnected and the
\* like): sent from the HAL thread, so never while it is blocked in recv.
SendOther ==
    /\ lpc = "idle"
    /\ Len(reqChan) < MaxReq
    /\ reqChan' = Append(reqChan, TaggedList("connected"))
    /\ UNCHANGED <<hal_message, worker, lpc, lmsg, hal, nsub, repChan,
                   notChan, rvars, obs>>
    /\ UNCHANGED pvars

(***************************************************************************)
(* RemoteHardwareServer and RemoteHardwareServerModule: the remote side.   *)
(* A dispatch is newMessage(r_message): the handler's processMessage runs  *)
(* in steps (hpc "pre" before it has held or replied, "post" after a       *)
(* successful holdMessage), an exception in flight is hpc "exc", and the   *)
(* except clause of newMessage is its own step.                            *)
(***************************************************************************)

\* The record of a call: what was called, whether it returned (ok) or
\* raised, its argument, and self.r_message when it was called.
Event(op, ok, arg) ==
    [op |-> op, ok |-> ok, arg |-> arg, held |-> r_message, exc |-> ""]

\* handleSendResponse(r_message): the sendResponse signal's slot.
HandleSendResponse(x) ==
    /\ repChan' = Append(repChan, x)
    /\ dsp' = [dsp EXCEPT !.replies = Append(@, x.kind)]

\* handleSendMessage(message): the sendMessage signal's slot.
HandleSendMessage(x) == notChan' = Append(notChan, x)

\* The message objects still referenced once a dispatch is over: the held
\* one.  The others are garbage.
Referenced ==
    [m \in Msgs |-> IF m = r_message THEN robj[m] ELSE EmptyObj]

\* RemoteHardwareServer.handleCheckMessageTimer: at most one message per
\* tick; anything but "close event" is handed to newMessage, which
\* dispatches on its type.
ServerCheckMessageTimer ==
    /\ hpc = "ready"
    /\ reqChan # <<>>
    /\ Head(reqChan) # CloseEvent
    /\ LET r == Head(reqChan)
       IN  IF IsRemoteHALMessage(r)
           THEN /\ hpc' = "pre"
                /\ rcur' = r.id
                /\ robj' = [Referenced EXCEPT ![r.id] =
                               [responses |-> r.responses, errors |-> r.errors]]
                /\ dsp' = [kind |-> "rmsg", replies |-> <<>>]
           ELSE /\ hpc' = "other"
                /\ rcur' = None
                /\ robj' = Referenced
                /\ dsp' = [kind |-> "list", replies |-> <<>>]
    /\ reqChan' = Tail(reqChan)
    /\ ev' = NoEv
    /\ UNCHANGED <<lvars, repChan, notChan, r_message, call, ops,
                   copied, overlap, lexc>>
    /\ UNCHANGED pvars

\* r_message.addResponse(HalMessageResponse(...)) in a handler.
AddResponse ==
    /\ hpc \in {"pre", "post"}
    /\ Len(robj[rcur].responses) < MaxResp
    /\ robj' = [robj EXCEPT ![rcur].responses =
                   Append(@, HalMessageResponse(RemoteName, Len(@) + 1))]
    /\ UNCHANGED <<lvars, chans, r_message, hpc, rcur, obs>>
    /\ UNCHANGED pvars

\* A variant of HoldMessageOk that stores the message and emits nothing.
HoldMessageNoWait(r) ==
    /\ r_message' = r
    /\ hpc' = "post"
    /\ ev' = Event("hold", TRUE, r)
    /\ ops' = <<ops[2], "hold">>
    /\ UNCHANGED <<repChan, dsp>>

\* holdMessage(r_message) with nothing held.
HoldMessageOk(r) ==
    /\ r_message' = r
    /\ HandleSendResponse(WaitToken)
    /\ hpc' = "post"
    /\ ev' = Event("hold", TRUE, r)
    /\ ops' = <<ops[2], "hold">>

\* holdMessage(r_message) with a message held: the assertion fails.
HoldMessageRaise(r) ==
    /\ hpc' = "exc"
    /\ ev' = [Event("hold", FALSE, r)
                 EXCEPT !.exc = "AssertionError"]
    /\ UNCHANGED <<r_message, repChan, dsp, ops>>

\* holdMessage(r_message)
HoldMessage(r) ==
    IF r_message = None THEN HoldMessageOk(r) ELSE HoldMessageRaise(r)

\* The handler calls holdMessage on the message it was given.
Hold ==
    /\ hpc = "pre"
    /\ HoldMessage(rcur)
    /\ UNCHANGED <<lvars, reqChan, notChan, robj, rcur, call, copied,
                   overlap, lexc>>
    /\ UNCHANGED pvars

\* A variant of ReleaseMessageHold that does not reset self.r_message.
ReleaseKeepsHeld ==
    /\ HandleSendMessage(IF r_message = None THEN NoneValue
                         ELSE Pickle(r_message, robj[r_message]))
    /\ r_message' = r_message
    /\ ev' = Event("release", TRUE, None)
    /\ ops' = <<ops[2], "release">>

\* releaseMessageHold(): emits self.r_message whatever it is.
ReleaseMessageHold ==
    /\ HandleSendMessage(IF r_message = None THEN NoneValue
                         ELSE Pickle(r_message, robj[r_message]))
    /\ r_message' = None
    /\ ev' = Event("release", TRUE, None)
    /\ ops' = <<ops[2], "release">>

\* The handler releases inside the dispatch and returns
\* (RemoteCameraServer.startCamera, stopCamera, updateParameters, ...).
ReleaseInDispatch ==
    /\ hpc = "post"
    /\ ReleaseMessageHold
    /\ hpc' = "ready"
    /\ UNCHANGED <<lvars, reqChan, repChan, robj, rcur, call, dsp, copied,
                   overlap, lexc>>
    /\ UNCHANGED pvars

\* The handler returns with the message held; a timer releases it later
\* (RemoteCameraServer.stopFilm with remote_save).
ReturnHeld ==
    /\ hpc = "post"
    /\ hpc' = "ready"
    /\ UNCHANGED <<lvars, chans, r_message, robj, rcur, obs>>
    /\ UNCHANGED pvars

\* A timer slot of the handler calls releaseMessageHold while a message is
\* held (RemoteCameraServer.handleStopWriter).
ReleaseLater ==
    /\ hpc = "ready"
    /\ r_message # None
    /\ ReleaseMessageHold
    /\ UNCHANGED <<lvars, reqChan, repChan, robj, hpc, rcur, call, dsp,
                   copied, overlap, lexc>>
    /\ UNCHANGED pvars

\* A handler calls releaseMessageHold with nothing held.
ReleaseNotHeld ==
    /\ hpc = "ready"
    /\ r_message = None
    /\ Len(notChan) < MaxNote
    /\ ReleaseMessageHold
    /\ UNCHANGED <<lvars, reqChan, repChan, robj, hpc, rcur, call, dsp,
                   copied, overlap, lexc>>
    /\ UNCHANGED pvars

\* The handler answers at once: self.sendResponse.emit(r_message), the last
\* statement of processMessage.
Respond ==
    /\ hpc = "pre"
    /\ HandleSendResponse(Pickle(rcur, robj[rcur]))
    /\ hpc' = "ready"
    /\ ev' = Event("respond", TRUE, rcur)
    /\ UNCHANGED <<lvars, reqChan, notChan, r_message, robj, rcur, call,
                   ops, copied, overlap, lexc>>
    /\ UNCHANGED pvars

\* The handler's own code raises, before or after it has held the message,
\* or while it handles a tagged list.
HandlerRaise ==
    /\ hpc \in {"pre", "post", "other"}
    /\ hpc' = "exc"
    /\ ev' = [Event("handler", FALSE, rcur)
                 EXCEPT !.exc = "HandlerError"]
    /\ UNCHANGED <<lvars, chans, r_message, robj, rcur, call, dsp, ops,
                   copied, overlap, lexc>>
    /\ UNCHANGED pvars

\* processMessageOther returns.
OtherReturn ==
    /\ hpc = "other"
    /\ hpc' = "ready"
    /\ UNCHANGED <<lvars, chans, r_message, robj, rcur, obs>>
    /\ UNCHANGED pvars

\* A variant of ExceptRemoteHALMessage that records the error and does not
\* emit the message.
ExceptNoReply(e) ==
    /\ robj' = [robj EXCEPT ![rcur].errors =
                   Append(@, HalMessageError("na", e))]
    /\ ev' = [Event("except", TRUE, rcur) EXCEPT !.exc = e]
    /\ UNCHANGED <<repChan, dsp>>

\* newMessage's except clause for a RemoteHALMessage: one error entry with
\* the exception's message and stack trace, then the message as the reply.
ExceptRemoteHALMessage(e) ==
    /\ robj' = [robj EXCEPT ![rcur].errors =
                   Append(@, HalMessageError("na", e))]
    /\ HandleSendResponse(Pickle(rcur, robj'[rcur]))
    /\ ev' = [Event("except", TRUE, rcur)
                 EXCEPT !.exc = e]

\* newMessage's except clause for a list: it has no addError, so the clause
\* itself raises and nothing is sent.
ExceptOther(e) ==
    /\ ev' = [Event("except", FALSE, None)
                 EXCEPT !.exc = "AttributeError"]
    /\ UNCHANGED <<robj, repChan, dsp>>

\* newMessage: except Exception as exception
NewMessageExcept ==
    /\ hpc = "exc"
    /\ IF dsp.kind = "rmsg"
       THEN ExceptRemoteHALMessage(ev.exc)
       ELSE ExceptOther(ev.exc)
    /\ hpc' = "ready"
    /\ UNCHANGED <<lvars, reqChan, notChan, r_message, rcur, call, ops,
                   copied, overlap, lexc>>
    /\ UNCHANGED pvars

\* An 'out of cycle' message of the handler, ["name", data]
\* (NoneHardwareServerModule.handleMessageTimer, the camera's signals).
Notify ==
    /\ hpc \in {"ready", "post"}
    /\ Len(notChan) < MaxNote
    /\ HandleSendMessage(TaggedList("event"))
    /\ UNCHANGED <<lvars, reqChan, repChan, rvars, obs>>
    /\ UNCHANGED pvars

Next ==
    \/ ProcessMessageSend
    \/ ProcessMessageRecv
    \/ HandleCheckMessageTimer
    \/ SendOther
    \/ ServerCheckMessageTimer
    \/ AddResponse
    \/ Hold
    \/ ReleaseInDispatch
    \/ ReturnHeld
    \/ ReleaseLater
    \/ ReleaseNotHeld
    \/ Respond
    \/ HandlerRaise
    \/ OtherReturn
    \/ NewMessageExcept
    \/ Notify

Spec == Init /\ [][Next]_vars

TypeOK ==
    /\ hal_message \in Msgs \cup {None}
    /\ worker \in BOOLEAN
    /\ lpc \in {"idle", "recv", "closing", "closed"}
    /\ hpc \in {"ready", "pre", "post", "other", "exc", "closing",
               "initial", "configuration"}
    /\ r_message \in Msgs \cup {None}
    /\ nsub \in 0..NMsgs

(***************************************************************************)
(* The claims.                                                             *)
(***************************************************************************)

\* The entries of 'to' from position 'from + 1' on are the entries of
\* 'entries', in order and with the same content.
Appended(to, from, entries, field) ==
    /\ Len(to) = from + Len(entries)
    /\ \A i \in 1..Len(entries) : to[from + i][field] = entries[i][field]

\* C1: a request sent while nothing is pending and answered on the request
\* path with a RemoteHALMessage has, once processMessage has returned, every
\* response and every error of that reply appended to the host message, no
\* pending request (hal_message and worker still None) and a net reference
\* count change of zero.
C1_ImmediateReplyApplied ==
    (call.outcome = "returned" /\ call.pend = None
        /\ IsRemoteHALMessage(call.resp))
    => /\ Appended(hal[call.msg].responses, 0, call.resp.responses, "data")
       /\ Appended(hal[call.msg].errors, 0, call.resp.errors, "message")
       /\ hal_message = None
       /\ worker = FALSE
       /\ hal[call.msg].ref = 0

\* C1's case: processMessage has returned from a reply that carried a
\* response and an error, and both are in the host message.
C1_Witness ==
    /\ call.outcome = "returned"
    /\ call.pend = None
    /\ IsRemoteHALMessage(call.resp)
    /\ Len(call.resp.responses) = 1
    /\ Len(call.resp.errors) = 1
    /\ Len(hal[call.msg].responses) = 1
    /\ Len(hal[call.msg].errors) = 1

\* The step in which processMessage takes a reply that is not a
\* RemoteHALMessage.
DeferredReplyStep ==
    /\ lpc = "recv"
    /\ lpc' = "idle"
    /\ ~IsRemoteHALMessage(Head(repChan))

\* C2: a request answered with anything but a RemoteHALMessage is registered
\* as the pending request with its reference count incremented by one; the
\* pending slot is cleared only by a RemoteHALMessage arriving on the notify
\* path, whose responses and errors are copied into the pending message and
\* whose arrival decrements its reference count by one; and while a message
\* is pending no other message becomes the pending one.
C2_DeferredThenSingleFlight ==
    [][/\ DeferredReplyStep =>
            /\ hal_message' = lmsg
            /\ hal'[lmsg].ref = hal[lmsg].ref + 1
       /\ (hal_message # None /\ hal_message' # hal_message) =>
            /\ hal_message' = None
            /\ hal'[hal_message].ref = hal[hal_message].ref - 1
            /\ \E i \in 1..Len(notChan) :
                  /\ IsRemoteHALMessage(notChan[i])
                  /\ Appended(hal'[hal_message].responses,
                              Len(hal[hal_message].responses),
                              notChan[i].responses, "data")
                  /\ Appended(hal'[hal_message].errors,
                              Len(hal[hal_message].errors),
                              notChan[i].errors, "message")
      ]_vars

\* C3: every RemoteHALMessage the server dispatches gets exactly one reply on
\* the request path (never two while the dispatch runs, exactly one when it
\* is over), and a tagged list gets none.
C3_OneReplyPerRequest ==
    /\ dsp.kind = "rmsg" =>
          /\ Len(dsp.replies) <= 1
          /\ (hpc = "ready" => Len(dsp.replies) = 1)
    /\ dsp.kind = "list" => dsp.replies = <<>>

\* C4: as long as no request was submitted while another was pending, the
\* responses and errors copied into a host message come only from wire
\* messages with that host message's id.
C4_RepliesMatchById ==
    ~overlap => \A m \in Msgs : copied[m] \subseteq {m}

\* C5: a processMessage call made while a request is pending ends in the
\* assertion error, whatever the reply.
C5_SecondRequestRaises ==
    (call.pend # None /\ call.outcome # "none") => call.outcome = "raised"

\* C6: holdMessage with a message held raises, leaves the held message in
\* place and sends no "wait"; and the hold and release calls that do not
\* raise alternate, starting with a hold.
C6_HoldRaisesAndCallsAlternate ==
    /\ (ev.op = "hold" /\ ev.held # None) =>
          /\ ~ev.ok
          /\ r_message = ev.held
          /\ dsp.replies = <<>>
    /\ ops[2] = "hold" => ops[1] \in {"none", "release"}
    /\ ops[2] = "release" => ops[1] = "hold"

\* C7: holdMessage(r) with nothing held stores r as the held message and puts
\* exactly one "wait" on the request path, as the reply to r, before any
\* later work of the handler on r: in every state in which the handler is
\* past its holdMessage call, r is held and "wait" is the one reply of this
\* dispatch, and HAL, if it still waits for the reply to r, finds "wait" on
\* the request path.
C7_HoldStoresAndSendsWait ==
    /\ (ev.op = "hold" /\ ev.ok) =>
          /\ ev.held = None
          /\ r_message = ev.arg
          /\ dsp.replies = <<"wait">>
    /\ hpc = "post" =>
          /\ r_message = rcur
          /\ dsp.replies = <<"wait">>
          /\ (lpc = "recv" /\ lmsg = rcur) =>
                /\ repChan # <<>>
                /\ repChan[Len(repChan)] = WaitToken

\* C7's case: holdMessage has just returned, the handler has done nothing
\* else yet and HAL is still blocked in its recv.
C7_Witness ==
    /\ hpc = "post"
    /\ ev.op = "hold"
    /\ ev.ok
    /\ r_message = rcur
    /\ lpc = "recv"
    /\ repChan = <<WaitToken>>

\* A step that is a releaseMessageHold call.
ReleaseStep == ev'.op = "release" /\ ev' # ev

\* C8: releaseMessageHold with a message held puts that message, with all
\* the responses and errors it has at that moment, on the notify path, puts
\* nothing on the request path and clears the held slot.
C8_ReleaseSendsHeldOnNotifyPath ==
    [][(ReleaseStep /\ r_message # None) =>
          /\ notChan' = Append(notChan, Pickle(r_message, robj[r_message]))
          /\ repChan' = repChan
          /\ r_message' = None
      ]_vars

\* C8's case: a held message that carried a response and an error has been
\* released.
C8_Witness ==
    /\ ev.op = "release"
    /\ ev.held # None
    /\ r_message = None
    /\ Len(robj[ev.held].responses) = 1
    /\ Len(robj[ev.held].errors) = 1
    /\ notChan # <<>>
    /\ notChan[Len(notChan)] = Pickle(ev.held, robj[ev.held])

\* C9: releaseMessageHold with nothing held raises and puts nothing on the
\* notify path.
C9_ReleaseNotHeldFailsFast ==
    [][(ReleaseStep /\ r_message = None) =>
          /\ ~ev'.ok
          /\ notChan' = notChan
      ]_vars

\* The step that is the except clause of newMessage for a RemoteHALMessage.
ExceptStep == hpc = "exc" /\ hpc' = "ready" /\ dsp.kind = "rmsg"

\* C10: when the handler's processMessage raises on a RemoteHALMessage, the
\* except clause of newMessage appends exactly one error entry with the
\* exception's message and stack trace to that message and sends the message
\* on the request path; no dispatch of a RemoteHALMessage ends without a
\* reply.
C10_HandlerExceptionBecomesReply ==
    /\ [][ExceptStep =>
            /\ robj'[rcur].errors =
                  Append(robj[rcur].errors,
                         [source |-> "na", message |-> ev.exc,
                          stack_trace |-> ev.exc])
            /\ robj'[rcur].responses = robj[rcur].responses
            /\ repChan' = Append(repChan, Pickle(rcur, robj'[rcur]))
            /\ notChan' = notChan
        ]_vars
    /\ []((dsp.kind = "rmsg" /\ hpc = "ready") => dsp.replies # <<>>)

\* C10's case: the handler raised before it had replied or held, and the
\* message with the one error entry is the reply waiting on the request path.
C10_Witness ==
    /\ ev.op = "except"
    /\ ev.ok
    /\ ev.exc = "HandlerError"
    /\ hpc = "ready"
    /\ dsp.replies = <<"rmsg">>
    /\ Len(robj[rcur].errors) = 1
    /\ repChan = <<Pickle(rcur, robj[rcur])>>

\* C11: no exception raised by handler code during a dispatch leaves
\* newMessage, whatever the kind of the inbound message (RemoteHALMessage or
\* tagged list): the except clause of newMessage always completes.
C11_NoExceptionLeavesNewMessage ==
    ev.op = "except" => ev.ok

\* C12: a RemoteHALMessage dispatched while another message is held gets no
\* reply of any kind on the request path: the dispatch fails as a programming
\* error, whether the handler answers it synchronously or tries to hold it.
\* (The held message is never the one being dispatched: holdMessage with a
\* message held stores nothing, so r_message is a message of an earlier
\* dispatch whenever it differs from rcur.)
C12_DispatchWhileHeldFails ==
    (dsp.kind = "rmsg" /\ r_message # None /\ r_message # rcur)
        => dsp.replies = <<>>

(***************************************************************************)
(* Bursts of 'out of cycle' messages: the handler's message timer fires    *)
(* several times between two poll ticks of HAL.                            *)
(***************************************************************************)

\* The most messages a burst leaves on the notify path.
MaxBurst == 3

\* "message N", the string NoneHardwareServerModule.handleMessageTimer emits.
StringValue == Payload("str", None, <<>>, <<>>, "message")

\* NoneHardwareServerModule.handleMessageTimer: the message timer is started
\* by the request that is held ("start") and fires any number of times
\* between two poll ticks of HAL.
NotifyBurst ==
    /\ hpc \in {"ready", "post"}
    /\ r_message # None
    /\ Len(notChan) < MaxBurst
    /\ HandleSendMessage(StringValue)
    /\ UNCHANGED <<lvars, reqChan, repChan, rvars, obs>>
    /\ UNCHANGED pvars

\* The bridge with handlers that do not raise and a HAL module that sends
\* requests only, and the bursts.
NextBurst ==
    \/ ProcessMessageSend
    \/ ProcessMessageRecv
    \/ HandleCheckMessageTimer
    \/ ServerCheckMessageTimer
    \/ AddResponse
    \/ Hold
    \/ ReleaseInDispatch
    \/ ReturnHeld
    \/ ReleaseLater
    \/ ReleaseNotHeld
    \/ Respond
    \/ Notify
    \/ NotifyBurst

SpecBurst == Init /\ [][NextBurst]_vars

\* The RemoteHALMessages of a batch, in order.
WireMessages(batch) == SelectSeq(batch, IsRemoteHALMessage)

\* A step that is a poll tick of HAL: the notify path is drained.
PollStep == lpc = "idle" /\ notChan # <<>> /\ notChan' = <<>>

\* C13: the notifications of a poll tick that are not RemoteHALMessages
\* (tagged lists, strings, None) change nothing of the pending request: a
\* batch without a RemoteHALMessage leaves self.hal_message, self.worker and
\* every host message (responses, errors, reference count) as they were, and
\* a batch with one has the effect of its RemoteHALMessages alone, however
\* many other notifications come before the deferred reply.
C13_OtherNotificationsChangeNothing ==
    [][PollStep =>
          LET L == RemoteMessages(LocalState, WireMessages(notChan))
          IN  /\ hal_message' = L.hal_message
              /\ worker' = L.worker
              /\ hal' = L.hal
              /\ (WireMessages(notChan) = <<>> =>
                     /\ hal_message' = hal_message
                     /\ worker' = worker
                     /\ hal' = hal)
      ]_vars

\* C13's case: a request is pending, and three "message N" strings, emitted
\* while its wire message was held, are in front of the deferred reply in
\* the batch that the next poll tick handles.
C13_Witness ==
    /\ lpc = "idle"
    /\ hal_message # None
    /\ Len(notChan) = 4
    /\ \A i \in 1..3 : notChan[i] = StringValue
    /\ notChan[4] = Pickle(hal_message, robj[hal_message])

\* C14: every wire message that was held and released, i.e. every
\* RemoteHALMessage a poll tick finds on the notify path, completes the host
\* message it originates from, once: that host message is the pending one,
\* the tick appends the wire message's responses and errors to it once and
\* decrements its reference count by one.
C14_HeldRequestCompletedOnce ==
    [][PollStep =>
          \A i \in 1..Len(notChan) :
              IsRemoteHALMessage(notChan[i]) =>
                  LET m == notChan[i].id
                  IN  /\ hal'[m].ref = hal[m].ref - 1
                      /\ Appended(hal'[m].responses, Len(hal[m].responses),
                                  notChan[i].responses, "data")
                      /\ Appended(hal'[m].errors, Len(hal[m].errors),
                                  notChan[i].errors, "message")
      ]_vars

(***************************************************************************)
(* Scheduling.  HAL's poll timer (50 ms) and the server's timer (10 ms)    *)
(* keep firing, a blocking recv returns once a reply is there, and a       *)
(* handler that was entered runs to its return or to its exception.        *)
(* Nothing obliges HAL to submit requests, nor a handler to release or to  *)
(* emit messages later.                                                    *)
(***************************************************************************)

\* The steps of a dispatch that is under way.
HandlerStep ==
    \/ AddResponse
    \/ Hold
    \/ ReleaseInDispatch
    \/ ReturnHeld
    \/ Respond
    \/ HandlerRaise
    \/ NewMessageExcept

Fairness ==
    /\ WF_vars(HandleCheckMessageTimer)
    /\ WF_vars(ProcessMessageRecv)
    /\ WF_vars(ServerCheckMessageTimer)
    /\ WF_vars(HandlerStep)

\* The bridge of a RemoteHardwareModule that sends requests only (no tagged
\* lists on the request path), with any handler.
NextLive ==
    \/ ProcessMessageSend
    \/ ProcessMessageRecv
    \/ HandleCheckMessageTimer
    \/ ServerCheckMessageTimer
    \/ AddResponse
    \/ Hold
    \/ ReleaseInDispatch
    \/ ReturnHeld
    \/ ReleaseLater
    \/ ReleaseNotHeld
    \/ Respond
    \/ HandlerRaise
    \/ NewMessageExcept
    \/ Notify

SpecLive == Init /\ [][NextLive]_vars /\ Fairness

\* A request is pending and a released wire message is on the notify path.
PendingAndReleased ==
    /\ hal_message # None
    /\ WireMessages(notChan) # <<>>

\* C15: once the handler has released the held message, the pending host
\* message is eventually completed (the bridge is Idle again), and it is
\* completed by the very poll tick that finds the released wire message on
\* the notify path.
C15_ReleasedRequestEventuallyCompleted ==
    /\ PendingAndReleased ~> (hal_message = None /\ ~worker)
    /\ [][(PollStep /\ PendingAndReleased) =>
             (hal_message' = None /\ ~worker')]_vars

\* C15's case: the last request was answered "wait", its wire message was
\* released, and the poll tick has completed it.
C15_Witness ==
    /\ call.msg # None
    /\ call.resp = WaitToken
    /\ call.outcome = "returned"
    /\ hal_message = None
    /\ lpc = "idle"
    /\ notChan = <<>>
    /\ copied[call.msg] = {call.msg}
    /\ hal[call.msg].ref = 0
    /\ Len(hal[call.msg].responses) = 1

\* C16: a pending request is cleared, and a host message's reference count
\* is decremented, only by a poll tick that finds a RemoteHALMessage on the
\* notify path, and a RemoteHALMessage gets on the notify path only by
\* releaseMessageHold with a message held: nothing else (no timeout, no
\* cancel, no other reply or notification) ends AwaitingReply, so without a
\* release the host message stays pending with its count incremented.
C16_OnlyReleasedMessageClearsPending ==
    [][/\ (hal_message # None /\ hal_message' = None) =>
             (PollStep /\ WireMessages(notChan) # <<>>)
       /\ (\E m \in Msgs : hal'[m].ref < hal[m].ref) =>
             (PollStep /\ WireMessages(notChan) # <<>>)
       /\ Len(WireMessages(notChan')) > Len(WireMessages(notChan)) =>
             (ReleaseStep /\ r_message # None)
      ]_vars

\* C16's case: M1 is pending and still held by the handler, a later request
\* has been answered synchronously meanwhile, the notify path is empty, and
\* M1 is still pending with its reference count incremented.
C16_Witness ==
    /\ hal_message # None
    /\ r_message = hal_message
    /\ hal[hal_message].ref = 1
    /\ lpc = "idle"
    /\ call.msg # hal_message
    /\ call.pend = hal_message
    /\ call.outcome = "returned"
    /\ IsRemoteHALMessage(call.resp)
    /\ notChan = <<>>

(***************************************************************************)
(* The close handshake.  HAL's cleanUp sends "close event" and blocks in   *)
(* recv (lpc "closing") until a reply is there, then closes its sockets    *)
(* (lpc "closed").  The server answers "ack" first (hpc "closing") and     *)
(* then runs the handler's cleanUp and createSockets.                      *)
(***************************************************************************)

\* RemoteHardwareModule.cleanUp up to its recv: the poll timer is stopped
\* and the sentinel is sent.
CleanUpSend ==
    /\ lpc = "idle"
    /\ lpc' = "closing"
    /\ reqChan' = Append(reqChan, CloseEvent)
    /\ call' = [msg |-> None, pend |-> hal_message,
                resp |-> Nothing, outcome |-> "none"]
    /\ UNCHANGED <<hal_message, worker, lmsg, hal, nsub, repChan, notChan,
                   rvars, ev, dsp, ops, copied, overlap, lexc>>
    /\ UNCHANGED pvars

\* RemoteHardwareModule.cleanUp from its recv on: the next message on the
\* request path, whatever it is, ends the wait; the sockets are closed.
CleanUpRecv ==
    /\ lpc = "closing"
    /\ repChan # <<>>
    /\ lpc' = "closed"
    /\ repChan' = Tail(repChan)
    /\ call' = [call EXCEPT !.resp = Head(repChan), !.outcome = "closed"]
    /\ UNCHANGED <<hal_message, worker, lmsg, hal, nsub, reqChan, notChan,
                   rvars, ev, dsp, ops, copied, overlap, lexc>>
    /\ UNCHANGED pvars

\* RemoteHardwareServer.handleCheckMessageTimer, the "close event" branch up
\* to the send of "ack".
ServerCloseEvent ==
    /\ hpc = "ready"
    /\ reqChan # <<>>
    /\ Head(reqChan) = CloseEvent
    /\ reqChan' = Tail(reqChan)
    /\ repChan' = Append(repChan, AckToken)
    /\ hpc' = "closing"
    /\ rcur' = None
    /\ robj' = Referenced
    /\ dsp' = [kind |-> "close", replies |-> <<"ack">>]
    /\ ev' = NoEv
    /\ UNCHANGED <<lvars, notChan, r_message, call, ops, copied, overlap,
                   lexc>>
    /\ UNCHANGED pvars

\* A variant of the "close event" branch that does not get to the end of
\* createSockets: the server never polls a new request socket.
ServerCleanUpNoSockets ==
    /\ hpc = "closing"
    /\ ev' = Event("cleanUp", TRUE, None)
    /\ UNCHANGED <<lvars, chans, r_message, robj, hpc, rcur, call, dsp, ops,
                   copied, overlap, lexc>>
    /\ UNCHANGED pvars

\* The rest of the "close event" branch: self.module.cleanUp(), which leaves
\* self.r_message as it is, and createSockets(), which closes both sockets
\* with linger = 0: what zmq has not handed to the peer yet is either still
\* delivered or discarded.
ServerCleanUp ==
    /\ hpc = "closing"
    /\ hpc' = "ready"
    /\ ev' = Event("cleanUp", TRUE, None)
    /\ \E delivered \in BOOLEAN :
          /\ repChan' = IF delivered THEN repChan ELSE <<>>
          /\ notChan' = IF delivered THEN notChan ELSE <<>>
    /\ UNCHANGED <<lvars, reqChan, r_message, robj, rcur, call, dsp, ops,
                   copied, overlap, lexc>>
    /\ UNCHANGED pvars

NextClose ==
    \/ Next
    \/ CleanUpSend
    \/ CleanUpRecv
    \/ ServerCloseEvent
    \/ ServerCleanUp

SpecClose == Init /\ [][NextClose]_vars

\* C17: HAL closes its sockets only after it has received "ack": the one
\* reply that cleanUp takes from the request path is the acknowledgement of
\* its "close event".
C17_CloseConsumesTheAck ==
    lpc = "closed" => call.resp = AckToken

\* C18: when HAL has received the "ack" and has disconnected, the handler's
\* cleanUp has run and no wire message is held.
C18_AckMeansFlushed ==
    (lpc = "closed" /\ call.resp = AckToken) =>
        (hpc # "closing" /\ r_message = None)

\* C19: the wait in cleanUp is bounded: while HAL waits for the reply to
\* "close event" it can end the wait by a step of its own, whether or not
\* the remote side ever replies.
C19_CloseWaitIsBounded ==
    lpc = "closing" => ENABLED CleanUpRecv

(***************************************************************************)
(* RemoteHALMessage construction: sanitizeData.                            *)
(***************************************************************************)

\* The most values (at any depth) the data of a host message holds.
MaxNodes == 4

\* The number of values in v, v included, and in a sequence of values.
RECURSIVE Size(_), SizeAll(_)
Size(v) == 1 + SizeAll(v.c)
SizeAll(vs) == IF vs = <<>> THEN 0 ELSE Size(Head(vs)) + SizeAll(Tail(vs))

\* The values with key k made of at most n values (n > 0), and the contents
\* of a container of type t from its i-th value on made of at most n values.
\* The keys of a dict are 1, 2, ... in insertion order.
RECURSIVE Values(_, _), Contents(_, _, _)
Values(n, k) ==
    {Node("prim", k, <<>>), Node("qobj", k, <<>>)}
        \cup UNION {{Node(t, k, c) : c \in Contents(n - 1, t, 1)} :
                       t \in {"dict", "list"}}
Contents(n, t, i) ==
    IF n = 0
    THEN {<<>>}
    ELSE {<<>>}
            \cup UNION {{<<v>> \o rest :
                            rest \in Contents(n - Size(v), t, i + 1)} :
                           v \in Values(n, IF t = "dict" THEN i ELSE 0)}

\* hal_message.data: None or a dict.
HostData ==
    {NoData} \cup {Node("dict", 0, c) : c \in Contents(MaxNodes, "dict", 1)}

\* sanitizeData(new_data, old_data), as the contents of new_data: for each
\* key in order, a dict is rebuilt recursively, a QObject is left out, and
\* anything else is stored as it is.
RECURSIVE SanitizeData(_)
SanitizeData(old_data) ==
    IF old_data = <<>>
    THEN <<>>
    ELSE LET val == Head(old_data)
             rest == SanitizeData(Tail(old_data))
         IN  IF val.t = "dict"
             THEN <<Node("dict", val.k, SanitizeData(val.c))>> \o rest
             ELSE IF val.t # "qobj"
                  THEN <<val>> \o rest
                  ELSE rest

\* RemoteHALMessage.__init__: self.data
RemoteData(d) ==
    IF d = NoData
    THEN Node("dict", 0, <<>>)
    ELSE Node("dict", 0, SanitizeData(d.c))

\* createRemoteMessage(message) for a host message with these data.
ToWire ==
    /\ wire = NotBuilt
    /\ wire' = RemoteData(data)
    /\ UNCHANGED <<lvars, chans, rvars, obs, data, rtvars, camvars, session, dvars>>

InitCodec ==
    /\ BridgeInit
    /\ data \in HostData
    /\ wire = NotBuilt
    /\ wmsg = NoMessage
    /\ hmsg = NoMessage
    /\ back = NoMessage
    /\ CameraIdle
    /\ session = 0
    /\ DevicesIdle

NextCodec == ToWire

SpecCodec == InitCodec /\ [][NextCodec]_vars

\* v is a QObject or holds one at some depth.
RECURSIVE HasQObject(_)
HasQObject(v) ==
    \/ v.t = "qobj"
    \/ \E i \in 1..Len(v.c) : HasQObject(v.c[i])

\* C20: the data of a RemoteHALMessage hold no QObject at any depth, be it
\* directly under a key, in a nested dict or in a list nested in the data.
C20_WireDataHasNoQObject ==
    wire # NotBuilt => ~HasQObject(wire)

\* The contents of a container without the QObjects they hold at any depth,
\* everything else kept under its key and in its place.
RECURSIVE WithoutQObjects(_)
WithoutQObjects(vs) ==
    IF vs = <<>>
    THEN <<>>
    ELSE LET val == Head(vs)
             rest == WithoutQObjects(Tail(vs))
         IN  IF val.t = "qobj"
             THEN rest
             ELSE <<Node(val.t, val.k, WithoutQObjects(val.c))>> \o rest

\* C21: building the RemoteHALMessage always succeeds; data that are None
\* give empty data, and otherwise the wire data are the host data with every
\* QObject leaf absent and every other key, at every nesting level, kept
\* with its value.
C21_WireDataIsHostDataWithoutQObjects ==
    wire # NotBuilt =>
        /\ wire.t = "dict"
        /\ data = NoData => wire.c = <<>>
        /\ data # NoData => wire.c = WithoutQObjects(data.c)

(***************************************************************************)
(* A wire message turned into a host message and back: remoteMessage's     *)
(* 'sendMessage' branch builds a HalMessage from the RemoteHALMessage in   *)
(* the notification, and RemoteHALMessage.__init__ builds a wire message   *)
(* from a HalMessage.                                                      *)
(***************************************************************************)

\* The ids a message can have, and the names a source module can have.
MessageIds == 1..NMsgs
SourceNames == {LocalName, RemoteName}
MessageTypes == {"configuration", "initial parameters"}

\* The source of a HalMessage is None.
NoSource == "None"
\* RemoteHALMessage.__init__ raised (AttributeError on hal_message.source).
Raised == Message(None, "AttributeError", "", NotBuilt)

\* Data made of primitives, dicts and lists only.
SafeData == {d \in HostData : d # NoData /\ ~HasQObject(d)}

\* The wire messages with safe data.
SafeWireMessages ==
    {Message(i, ty, src, d) :
        i \in MessageIds, ty \in MessageTypes, src \in SourceNames,
        d \in SafeData}

\* remoteMessage, 'sendMessage' branch:
\*   msg = halMessage.HalMessage(m_type = r_message[1].m_type,
\*                               data = r_message[1].data)
\* The constructor is given neither the id nor the source: the id is
\* whatever HalMessage assigns, and the source is None unless the host sets
\* it to the sending module when the message is sent.
ToHostMessage ==
    /\ wmsg # NoMessage
    /\ hmsg = NoMessage
    /\ \E i \in MessageIds, src \in {NoSource, LocalName} :
          hmsg' = Message(i, wmsg.m_type, src, wmsg.data)
    /\ UNCHANGED <<lvars, chans, rvars, obs, cvars, wmsg, back, camvars, session, dvars>>

\* RemoteHALMessage(hal_message = hmsg)
ToWireBack ==
    /\ hmsg # NoMessage
    /\ back = NoMessage
    /\ back' = IF hmsg.source = NoSource
               THEN Raised
               ELSE Message(hmsg.m_id, hmsg.m_type, hmsg.source,
                            RemoteData(hmsg.data))
    /\ UNCHANGED <<lvars, chans, rvars, obs, cvars, wmsg, hmsg, camvars, session, dvars>>

InitRound ==
    /\ BridgeInit
    /\ data = NoData
    /\ wire = NotBuilt
    /\ wmsg \in SafeWireMessages
    /\ hmsg = NoMessage
    /\ back = NoMessage
    /\ CameraIdle
    /\ session = 0
    /\ DevicesIdle

NextRound == ToHostMessage \/ ToWireBack

SpecRound == InitRound /\ [][NextRound]_vars

\* C22: a wire message with safe data that is turned into a host message
\* and back into a wire message comes back as it was: same id, type, source
\* name and data.
C22_RoundTripIsIdentity ==
    back # NoMessage => back = wmsg

(***************************************************************************)
(* copyResponses on its own: the bridge right before it copies a wire      *)
(* message, on the synchronous path (blocked in recv, the reply waiting)   *)
(* and on the deferred path (a request pending, the released message       *)
(* waiting on the notify path), for wire messages with up to MaxEntries    *)
(* responses and errors.                                                   *)
(***************************************************************************)

\* The most responses, and the most errors, of a wire message.
MaxEntries == 2

\* The source a handler gives to a response or an error.
HandlerSources == {RemoteName, "na"}

\* r_message.getResponses() / getErrors(): the i-th entry carries i.
ResponseLists ==
    UNION {{[i \in 1..n |-> HalMessageResponse(f[i], i)] :
               f \in [1..n -> HandlerSources]} : n \in 0..MaxEntries}
ErrorLists ==
    UNION {{[i \in 1..n |-> HalMessageError(f[i], ToString(i))] :
               f \in [1..n -> HandlerSources]} : n \in 0..MaxEntries}

\* What other modules of the host have already added to the host message.
PriorResponses == {<<>>, <<HalMessageResponse("film", 0)>>}

\* processMessage(m) is blocked in recv and the reply r is there.
BeforeSyncCopy(m, r, prior) ==
    /\ hal_message = None
    /\ worker = FALSE
    /\ lpc = "recv"
    /\ lmsg = m
    /\ hal = [x \in Msgs |->
                 IF x = m THEN [NewHalMessage EXCEPT !.responses = prior]
                 ELSE NewHalMessage]
    /\ repChan = <<r>>
    /\ notChan = <<>>
    /\ call = [msg |-> m, pend |-> None, resp |-> Nothing,
               outcome |-> "none"]

\* m is pending and its released wire message r is on the notify path.
BeforeDeferredCopy(m, r, prior) ==
    /\ hal_message = m
    /\ worker = TRUE
    /\ lpc = "idle"
    /\ lmsg = m
    /\ hal = [x \in Msgs |->
                 IF x = m THEN [NewHalMessage EXCEPT !.responses = prior,
                                                     !.ref = 1]
                 ELSE NewHalMessage]
    /\ repChan = <<>>
    /\ notChan = <<r>>
    /\ call = [msg |-> m, pend |-> None, resp |-> WaitToken,
               outcome |-> "returned"]

InitCopy ==
    /\ \E m \in Msgs, rs \in ResponseLists, es \in ErrorLists,
          prior \in PriorResponses :
          LET r == Payload("rmsg", m, rs, es, "")
          IN  /\ \/ BeforeSyncCopy(m, r, prior)
                 \/ BeforeDeferredCopy(m, r, prior)
              /\ nsub = m
    /\ reqChan = <<>>
    /\ r_message = None
    /\ robj = [m \in Msgs |-> EmptyObj]
    /\ hpc = "ready"
    /\ rcur = None
    /\ ev = NoEv
    /\ dsp = NoDsp
    /\ ops = <<"none", "none">>
    /\ copied = [m \in Msgs |-> {}]
    /\ overlap = FALSE
    /\ lexc = FALSE
    /\ CodecIdle

NextCopy == ProcessMessageRecv \/ HandleCheckMessageTimer

SpecCopy == InitCopy /\ [][NextCopy]_vars

\* This step appends the responses and the errors of r to host message m,
\* in r's order and after what m already had, each with the bridge's module
\* name as its source and otherwise unchanged.
CopiedInOrder(m, r) ==
    /\ Len(hal'[m].responses) = Len(hal[m].responses) + Len(r.responses)
    /\ SubSeq(hal'[m].responses, 1, Len(hal[m].responses))
           = hal[m].responses
    /\ \A i \in 1..Len(r.responses) :
           hal'[m].responses[Len(hal[m].responses) + i]
               = [source |-> LocalName, data |-> r.responses[i].data]
    /\ Len(hal'[m].errors) = Len(hal[m].errors) + Len(r.errors)
    /\ SubSeq(hal'[m].errors, 1, Len(hal[m].errors)) = hal[m].errors
    /\ \A i \in 1..Len(r.errors) :
           hal'[m].errors[Len(hal[m].errors) + i]
               = [source |-> LocalName,
                  message |-> r.errors[i].message,
                  stack_trace |-> r.errors[i].stack_trace]

NotifyQueued ==
    /\ hpc \in {"ready", "post"}
    /\ Len(notChan) < MaxBurst
    /\ HandleSendMessage(StringValue)
    /\ UNCHANGED <<lvars, reqChan, repChan, rvars, obs>>
    /\ UNCHANGED pvars

NextOrder == NextBurst \/ NotifyQueued

SpecOrder == Init /\ [][NextOrder]_vars

\* The messages of a received batch that handleCheckMessageTimer's for loop
\* never passes to remoteMessage: those behind the first one that raises.
RECURSIVE Unhandled(_, _)
Unhandled(L, rs) ==
    IF rs = <<>>
    THEN <<>>
    ELSE IF RemoteMessage(L, Head(rs)).exc
         THEN Tail(rs)
         ELSE Unhandled(RemoteMessage(L, Head(rs)), Tail(rs))

\* C24: the notify path is handled in send order: a poll tick takes the
\* whole queue, oldest first, and passes every message of it to
\* remoteMessage, so no message is skipped in favour of a later one.
C24_NotifyPathHandledInSendOrder ==
    [][PollStep => Unhandled(LocalState, notChan) = <<>>]_vars

\* C25: a poll tick leaves nothing behind: a step in which the local
\* bridge takes messages off the notify path, or the remote bridge takes
\* messages off the request path, empties that path.
C25_PollTickDrainsInbound ==
    [][/\ Len(notChan') < Len(notChan) => notChan' = <<>>
       /\ Len(reqChan') < Len(reqChan) => reqChan' = <<>>]_vars

(***************************************************************************)
(* RemoteCamera and RemoteCameraServer, after the "init" exchange: the     *)
(* local camera functionality exists and the server's handlers are         *)
(* connected to the signals of the camera.                                 *)
(***************************************************************************)

\* The distinct payloads of a signal.
MaxArg == 2
\* Messages on the notify path when a signal handler runs.
MaxSignals == 2
\* Frames counted as lost.
MaxLost == 1

SignalArgs == 1..MaxArg

\* A list [name, data] as it is pickled.
CameraList(t, a) ==
    [kind |-> "list", id |-> None, responses |-> <<>>, errors |-> <<>>,
     tag |-> t, arg |-> a]

\* The signals of a camera functionality; those of ArgSignals carry a value.
SignalNames ==
    {"emccdGain", "newFrame", "parametersChanged", "shutter", "started",
     "stopped", "temperature"}
ArgSignals == {"emccdGain", "newFrame", "shutter", "temperature"}

\* Signal n emitted with value a (None for a signal without one).
Signal(n, a) == [kind |-> "signal", name |-> n, arg |-> a]

\* What the server's handler of hardware signal n emits on sendMessage
\* (handleEMCCDGain ... handleTemperature).
Forwarded(n, a) ==
    CASE n = "emccdGain" -> CameraList("emccdGain", a)
      [] n = "newFrame" -> CameraList("newFrame", a)
      [] n = "parametersChanged" -> CameraList("parametersChanged", None)
      [] n = "shutter" -> CameraList("emccdGain", a)
      [] n = "started" -> CameraList("started", None)
      [] n = "stopped" -> CameraList("stopped", None)
      [] n = "temperature" -> CameraList("temperature", a)

\* What the base remoteMessage and then RemoteCamera.remoteMessage do in
\* the host for one message that does not raise: complete the pending
\* request, send the host message of a 'sendMessage' list, or emit the
\* signal of the local camera functionality named by the list's tag.
HostEvent(L, r) ==
    IF IsRemoteHALMessage(r)
    THEN [kind |-> "completed", name |-> "", arg |-> L.hal_message]
    ELSE IF r.kind # "list"
    THEN [kind |-> "none", name |-> "", arg |-> None]
    ELSE IF r.tag = "sendMessage"
    THEN [kind |-> "sendMessage", name |-> r.arg.m_type, arg |-> r.during]
    ELSE IF r.tag \in SignalNames
    THEN Signal(r.tag, IF r.tag \in ArgSignals THEN r.arg ELSE None)
    ELSE [kind |-> "none", name |-> "", arg |-> None]

\* handleCheckMessageTimer's for loop over a batch, as host events.
RECURSIVE HostEvents(_, _)
HostEvents(L, rs) ==
    IF rs = <<>> \/ RemoteMessage(L, Head(rs)).exc
    THEN <<>>
    ELSE <<HostEvent(L, Head(rs))>>
             \o HostEvents(RemoteMessage(L, Head(rs)), Tail(rs))

IsSignal(e) == e.kind = "signal"
IsNewFrame(e) == e.kind = "signal" /\ e.name = "newFrame"
IsHostLog(e) == e.kind \in {"completed", "sendMessage"}

\* ['received', {"received" : True}], one for each newFrame handled.
Received(es) ==
    [i \in 1..Len(SelectSeq(es, IsNewFrame)) |-> CameraList("received", TRUE)]

\* RemoteCamera's handleCheckMessageTimer: the base class's loop with
\* RemoteCamera.remoteMessage.
CameraCheckMessageTimer ==
    /\ CheckMessageTimer
    /\ LET es == HostEvents(LocalState, notChan)
       IN  /\ emitted' = SelectSeq(es, IsSignal)
           /\ hostlog' = hostlog \o SelectSeq(es, IsHostLog)
           /\ reqChan' = reqChan \o Received(es)
    /\ fired' = <<>>
    /\ UNCHANGED <<connected, n_sent, n_lost, m_type, cvars, rtvars, session, dvars>>

\* The camera emits a signal other than newFrame; the server's handler
\* forwards it.
HardwareSignal ==
    /\ hpc \in {"ready", "post"}
    /\ Len(notChan) < MaxSignals
    /\ \E n \in SignalNames \ {"newFrame"} :
       \E a \in IF n \in ArgSignals THEN SignalArgs ELSE {None} :
          /\ HandleSendMessage(Forwarded(n, a))
          /\ fired' = Append(fired, Signal(n, a))
    /\ UNCHANGED <<lvars, reqChan, repChan, rvars, obs>>
    /\ UNCHANGED <<connected, n_sent, n_lost, emitted, hostlog, m_type,
                   cvars, rtvars, session, dvars>>

\* A variant of handleNewFrame that does not look at self.connected.
HandleNewFrameUnconnected ==
    /\ hpc \in {"ready", "post"}
    /\ \E a \in SignalArgs :
          IF n_sent = 0
          THEN /\ Len(notChan) < MaxSignals
               /\ n_sent' = n_sent + 1
               /\ HandleSendMessage(Forwarded("newFrame", a))
               /\ fired' = Append(fired, Signal("newFrame", a))
               /\ UNCHANGED n_lost
          ELSE /\ n_lost < MaxLost
               /\ n_lost' = n_lost + 1
               /\ UNCHANGED <<n_sent, notChan, fired>>
    /\ UNCHANGED <<lvars, reqChan, repChan, rvars, obs>>
    /\ UNCHANGED <<connected, emitted, hostlog, m_type, cvars, rtvars, session, dvars>>

\* handleNewFrame(frame) while connected: sent if none is unacknowledged,
\* counted as lost otherwise.  Not connected, it does nothing.
HandleNewFrame ==
    /\ hpc \in {"ready", "post"}
    /\ connected
    /\ \E a \in SignalArgs :
          IF n_sent = 0
          THEN /\ Len(notChan) < MaxSignals
               /\ n_sent' = n_sent + 1
               /\ HandleSendMessage(Forwarded("newFrame", a))
               /\ fired' = Append(fired, Signal("newFrame", a))
               /\ UNCHANGED n_lost
          ELSE /\ n_lost < MaxLost
               /\ n_lost' = n_lost + 1
               /\ UNCHANGED <<n_sent, notChan, fired>>
    /\ UNCHANGED <<lvars, reqChan, repChan, rvars, obs>>
    /\ UNCHANGED <<connected, emitted, hostlog, m_type, cvars, rtvars, session, dvars>>

IsConnectedList(r) == r.kind = "list" /\ r.tag = "connected"

\* The value of the last connected report HAL sent, FALSE before the first.
LastReported ==
    IF SelectSeq(reqChan, IsConnectedList) = <<>>
    THEN connected
    ELSE SelectSeq(reqChan, IsConnectedList)[
             Len(SelectSeq(reqChan, IsConnectedList))].arg

\* RemoteCamera.handleConnected: the first consumer of the local newFrame
\* signal connects, or the last one disconnects.
HandleConnected ==
    /\ lpc = "idle"
    /\ Len(reqChan) < MaxReq
    /\ reqChan' = Append(reqChan, CameraList("connected", ~LastReported))
    /\ UNCHANGED <<lvars, repChan, notChan, rvars, obs>>
    /\ UNCHANGED pvars

\* A variant of processMessageOther in which "received" takes two off
\* n_sent.
ProcessMessageOtherCounts ==
    /\ hpc = "ready"
    /\ reqChan # <<>>
    /\ Head(reqChan).kind = "list"
    /\ LET r == Head(reqChan)
       IN  /\ connected' = IF r.tag = "connected" THEN r.arg ELSE connected
           /\ n_lost' = IF r.tag = "connected" /\ ~r.arg THEN 0 ELSE n_lost
           /\ n_sent' = IF r.tag = "received" THEN n_sent - 2 ELSE n_sent
           /\ notChan' = IF r.tag = "init"
                          THEN Append(notChan,
                                      CameraList("camera_functionality", None))
                          ELSE notChan
    /\ reqChan' = Tail(reqChan)
    /\ rcur' = None
    /\ robj' = Referenced
    /\ dsp' = [kind |-> "list", replies |-> <<>>]
    /\ ev' = NoEv
    /\ UNCHANGED <<lvars, repChan, r_message, hpc, call, ops,
                   copied, overlap, lexc>>
    /\ remote_save' = IF Head(reqChan).tag = "init" THEN Head(reqChan).arg
                                                   ELSE remote_save
    /\ UNCHANGED <<fired, emitted, hostlog, m_type, cvars, rtvars, session,
                   scvars, focus, zvars, writer, closes, writer_stopped_timer, n_polls>>

\* The server's timer with a list first on the request path: newMessage
\* hands it to RemoteCameraServer.processMessageOther.
ProcessMessageOther ==
    /\ hpc = "ready"
    /\ reqChan # <<>>
    /\ Head(reqChan).kind = "list"
    /\ LET r == Head(reqChan)
       IN  /\ connected' = IF r.tag = "connected" THEN r.arg ELSE connected
           /\ n_lost' = IF r.tag = "connected" /\ ~r.arg THEN 0 ELSE n_lost
           /\ n_sent' = IF r.tag = "received" THEN n_sent - 1 ELSE n_sent
           /\ notChan' = IF r.tag = "init"
                          THEN Append(notChan,
                                      CameraList("camera_functionality", None))
                          ELSE notChan
    /\ reqChan' = Tail(reqChan)
    /\ rcur' = None
    /\ robj' = Referenced
    /\ dsp' = [kind |-> "list", replies |-> <<>>]
    /\ ev' = NoEv
    /\ UNCHANGED <<lvars, repChan, r_message, hpc, call, ops,
                   copied, overlap, lexc>>
    /\ remote_save' = IF Head(reqChan).tag = "init" THEN Head(reqChan).arg
                                                   ELSE remote_save
    /\ UNCHANGED <<fired, emitted, hostlog, m_type, cvars, rtvars, session,
                   scvars, focus, zvars, writer, closes, writer_stopped_timer, n_polls>>

NextSignals ==
    \/ HardwareSignal
    \/ HandleNewFrame
    \/ HandleConnected
    \/ ProcessMessageOther
    \/ CameraCheckMessageTimer

SpecSignals == Init /\ [][NextSignals]_vars

\* C26: every hardware signal the remote camera forwards comes out of the
\* local camera functionality as the signal of the same name with the same
\* value: what a poll tick emits locally is what was fired remotely and
\* forwarded since the tick before, in order.
C26_SignalsReemittedUnderTheirName ==
    [][(lpc = "idle" /\ notChan # <<>> /\ notChan' = <<>>)
          => emitted' = fired]_vars

(***************************************************************************)
(* The camera's held requests: "configure1", which sends two 'sendMessage' *)
(* notifications between holdMessage and releaseMessageHold, and "stop     *)
(* camera", which holds, stops the camera and releases.                    *)
(***************************************************************************)

CameraTypes == {"configure1", "stop camera"}

\* ["sendMessage", r_msg]; 'during' is not part of the list: it records the
\* request that was being dispatched when the list was emitted.
SendMessageList(w, during) ==
    [kind |-> "list", id |-> None, responses |-> <<>>, errors |-> <<>>,
     tag |-> "sendMessage", arg |-> w, during |-> during]

\* configure1: HalMessage(m_type = "initial parameters", source = self, ...)
\* as a RemoteHALMessage, emitted on sendMessage.
SendInitialParameters ==
    /\ hpc = "post"
    /\ m_type[rcur] = "configure1"
    /\ \E i \in MessageIds :
          HandleSendMessage(SendMessageList(
              Message(i, "initial parameters", RemoteName,
                      Node("dict", 0, <<>>)), rcur))
    /\ hpc' = "initial"
    /\ UNCHANGED <<lvars, reqChan, repChan, r_message, robj, rcur, obs>>
    /\ UNCHANGED pvars

\* configure1: the 'configuration' message, likewise.
SendConfiguration ==
    /\ hpc = "initial"
    /\ \E i \in MessageIds :
          HandleSendMessage(SendMessageList(
              Message(i, "configuration", RemoteName,
                      Node("dict", 0, <<>>)), rcur))
    /\ hpc' = "configuration"
    /\ UNCHANGED <<lvars, reqChan, repChan, r_message, robj, rcur, obs>>
    /\ UNCHANGED pvars

\* configure1: self.releaseMessageHold(), the last statement.
Configure1Release ==
    /\ hpc = "configuration"
    /\ ReleaseMessageHold
    /\ hpc' = "ready"
    /\ UNCHANGED <<lvars, reqChan, repChan, robj, rcur, call, dsp, copied,
                   overlap, lexc>>
    /\ UNCHANGED pvars

\* "stop camera": stopCamera() releases in the dispatch.
StopCamera ==
    /\ hpc = "post"
    /\ m_type[rcur] = "stop camera"
    /\ ReleaseInDispatch

InitConfigure ==
    /\ BridgeInit
    /\ data = NoData
    /\ wire = NotBuilt
    /\ wmsg = NoMessage
    /\ hmsg = NoMessage
    /\ back = NoMessage
    /\ connected = FALSE
    /\ n_sent = 0
    /\ n_lost = 0
    /\ fired = <<>>
    /\ emitted = <<>>
    /\ hostlog = <<>>
    /\ m_type \in [Msgs -> CameraTypes]
    /\ session = 0
    /\ DevicesIdle

NextConfigure ==
    \/ ProcessMessageSend
    \/ ProcessMessageRecv
    \/ CameraCheckMessageTimer
    \/ ServerCheckMessageTimer
    \/ Hold
    \/ SendInitialParameters
    \/ SendConfiguration
    \/ Configure1Release
    \/ StopCamera

SpecConfigure == InitConfigure /\ [][NextConfigure]_vars

\* The host has sent the message of type ty emitted while request m was
\* being dispatched.
Rebroadcast(ty, m) == [kind |-> "sendMessage", name |-> ty, arg |-> m]

\* C27: when the local bridge completes a "configure1" host message from
\* the notify path, it has already re-broadcast that request's "initial
\* parameters" and then its "configuration" notification.
C27_NotificationsBeforeConfigure1Completes ==
    \A i \in 1..Len(hostlog) :
        (hostlog[i].kind = "completed"
            /\ m_type[hostlog[i].arg] = "configure1")
        => \E j \in 1..i, k \in 1..i :
              /\ j < k
              /\ hostlog[j] = Rebroadcast("initial parameters",
                                           hostlog[i].arg)
              /\ hostlog[k] = Rebroadcast("configuration", hostlog[i].arg)

\* C28: a deferred reply is never handled before its host message is
\* registered: when a poll tick receives a wire message, the host message
\* pending at that moment is the one the wire message answers (its "wait"
\* has been consumed and self.hal_message set).  Stated for the runs in
\* which no request was submitted while another was pending.
C28_DeferredReplyFindsItsRequestPending ==
    [][(PollStep /\ ~overlap /\ WireMessages(notChan) # <<>>)
          => hal_message = WireMessages(notChan)[1].id]_vars

(***************************************************************************)
(* Sessions: NoneHardwareServerModule behind the server, and a HAL side    *)
(* that closes the bridge and comes back with a new RemoteHardwareModule.  *)
(***************************************************************************)

\* The server's timer with a RemoteHALMessage first on the request path,
\* through newMessage and NoneHardwareServerModule.processMessage: a
\* "start" message is stored in self.r_message and the delay timer started;
\* the reply is the message if self.r_message is None and "wait" otherwise.
NoneProcessMessage ==
    /\ hpc = "ready"
    /\ reqChan # <<>>
    /\ IsRemoteHALMessage(Head(reqChan))
    /\ LET r == Head(reqChan)
           obj == [responses |-> r.responses, errors |-> r.errors]
       IN  \E start \in BOOLEAN :
              /\ r_message' = IF start THEN r.id ELSE r_message
              /\ robj' = [Referenced EXCEPT ![r.id] = obj]
              /\ rcur' = r.id
              /\ LET reply == IF r_message' = None THEN Pickle(r.id, obj)
                              ELSE WaitToken
                 IN  /\ repChan' = Append(repChan, reply)
                     /\ dsp' = [kind |-> "rmsg", replies |-> <<reply.kind>>]
    /\ reqChan' = Tail(reqChan)
    /\ ev' = NoEv
    /\ UNCHANGED <<lvars, notChan, hpc, call, ops, copied, overlap, lexc>>
    /\ UNCHANGED pvars

\* NoneHardwareServerModule.handleDelayTimer: the single shot timer started
\* with "start" emits the stored message on sendMessage.
HandleDelayTimer ==
    /\ hpc = "ready"
    /\ r_message # None
    /\ HandleSendMessage(Pickle(r_message, robj[r_message]))
    /\ r_message' = None
    /\ UNCHANGED <<lvars, reqChan, repChan, robj, hpc, rcur, obs>>
    /\ UNCHANGED pvars

\* The sessions after the first.
MaxSessions == 2

\* HAL comes back after cleanUp: RemoteHardwareModule.__init__ of a new
\* module connects to the server's addresses; what it sends reaches the
\* server once the sockets are bound again.  Nothing sent to the closed
\* sockets is seen by the new module.
Reconnect ==
    /\ lpc = "closed"
    /\ session < MaxSessions
    /\ session' = session + 1
    /\ hal_message' = None
    /\ worker' = FALSE
    /\ lpc' = "idle"
    /\ lmsg' = None
    /\ hal' = [m \in Msgs |-> NewHalMessage]
    /\ reqChan' = <<>>
    /\ repChan' = <<>>
    /\ notChan' = <<>>
    /\ call' = NoCall
    /\ UNCHANGED <<nsub, rvars, ev, dsp, ops, copied, overlap, lexc>>
    /\ UNCHANGED <<cvars, rtvars, camvars, dvars>>

NextSession ==
    \/ ProcessMessageSend
    \/ ProcessMessageRecv
    \/ HandleCheckMessageTimer
    \/ NoneProcessMessage
    \/ HandleDelayTimer
    \/ CleanUpSend
    \/ CleanUpRecv
    \/ ServerCloseEvent
    \/ ServerCleanUp
    \/ Reconnect

SpecSession == Init /\ [][NextSession]_vars

\* C29: a wire message that arrives on the notify path finds a request
\* pending: the poll tick is never given a deferred reply while the bridge
\* is Idle.  Stated for the runs in which no request was submitted while
\* another was pending.
C29_WireMessageFindsPendingRequest ==
    [][(PollStep /\ ~overlap /\ WireMessages(notChan) # <<>>)
          => hal_message # None]_vars

\* C30: the bridge's incRefCount calls minus its decRefCount calls on a
\* host message are 1 for the pending request and 0 for every other
\* message, and 0 for every message once cleanUp has closed the bridge.
\* Stated for the runs in which no request was submitted while another was
\* pending.
C30_ReferenceCountBalance ==
    ~overlap =>
        \A m \in Msgs :
            hal[m].ref = IF m = hal_message /\ lpc # "closed" THEN 1 ELSE 0

\* C31: a processMessage call that ends in the single-flight AssertionError
\* has changed nothing: the request that was pending when it was called is
\* still the pending one and the rejected message's reference count is not
\* incremented.
C31_RejectedSubmitChangesNothing ==
    call.outcome = "raised"
        => /\ hal_message = call.pend
           /\ hal[call.msg].ref = 0

\* The timers of the server and the blocking recv of HAL: the server's
\* 10 ms timer keeps firing, a slot that has started runs to its end, and
\* a recv returns once a message is there.
SessionFairness ==
    /\ WF_vars(NoneProcessMessage)
    /\ WF_vars(ServerCloseEvent)
    /\ WF_vars(ServerCleanUp)
    /\ WF_vars(ProcessMessageRecv)

SpecSessionLive == Init /\ [][NextSession]_vars /\ SessionFairness

\* C32: a local bridge that connects after a close event has its requests
\* received, dispatched and answered: whenever it waits for the reply to a
\* request, in any session after the first, processMessage gets a reply.
C32_RequestsAnsweredAfterClose ==
    (session > 0 /\ lpc = "recv") ~> (lpc = "idle" /\ call.resp # Nothing)

\* C32's case: after MaxSessions close events and reconnections a request
\* has been sent and answered with its wire message.
C32_Witness ==
    /\ session = MaxSessions
    /\ lpc = "idle"
    /\ call.msg # None
    /\ call.outcome = "returned"
    /\ IsRemoteHALMessage(call.resp)
    /\ call.resp.id = call.msg

\* This step puts a newFrame list on the notify path.
FrameSent ==
    /\ Len(notChan') = Len(notChan) + 1
    /\ notChan'[Len(notChan')].kind = "list"
    /\ notChan'[Len(notChan')].tag = "newFrame"

\* This step is the server taking a connected report off the request path.
ReportReceived ==
    /\ reqChan # <<>>
    /\ reqChan' = Tail(reqChan)
    /\ IsConnectedList(Head(reqChan))

\* C33: a newFrame notification is sent only while the last connected
\* report the server has received is True: self.connected is False until a
\* report is received, changes only when one is received, to the value
\* reported, or to False in cleanUp, and no frame is put on the notify path
\* while it is False.
C33_FramesOnlyWhileConnected ==
    [][/\ FrameSent => connected
       /\ ReportReceived => connected' = Head(reqChan).arg
       /\ connected' # connected
            => \/ ReportReceived
               \/ hpc = "closing" /\ ~connected']_vars

\* C33's case: a frame is on the notify path, sent after the server had
\* received connected = True, and a frame has been withheld before: the
\* local side has since reported False, which is still on its way.
C33_Witness ==
    /\ connected
    /\ n_sent = 1
    /\ \E i \in 1..Len(notChan) : notChan[i].tag = "newFrame"
    /\ reqChan = <<CameraList("connected", FALSE)>>

(***************************************************************************)
(* The camera over sessions: frames, their acknowledgements, the close     *)
(* handshake and a new RemoteCamera connecting.                            *)
(***************************************************************************)

\* RemoteCameraServer.cleanUp and createSockets, the rest of the "close
\* event" branch: connected, n_sent, remote_save and writer are reset, the
\* camera's signals disconnected, and what zmq still holds is delivered or
\* discarded.
CameraCleanUp ==
    /\ hpc = "closing"
    /\ hpc' = "ready"
    /\ connected' = FALSE
    /\ n_sent' = 0
    /\ ev' = Event("cleanUp", TRUE, None)
    /\ \E delivered \in BOOLEAN :
          /\ repChan' = IF delivered THEN repChan ELSE <<>>
          /\ notChan' = IF delivered THEN notChan ELSE <<>>
    /\ UNCHANGED <<lvars, reqChan, r_message, robj, rcur, call, dsp, ops,
                   copied, overlap, lexc>>
    /\ remote_save' = FALSE
    /\ writer' = "none"
    /\ UNCHANGED <<n_lost, fired, emitted, hostlog, m_type, cvars, rtvars,
                   session, scvars, focus, zvars, closes, writer_stopped_timer, n_polls>>

\* RemoteCamera.__init__ of a new module after cleanUp: the base class
\* connects and ["init", cam_dict] is sent, remote_save in it.
CameraReconnect ==
    /\ lpc = "closed"
    /\ session < MaxSessions
    /\ session' = session + 1
    /\ hal_message' = None
    /\ worker' = FALSE
    /\ lpc' = "idle"
    /\ lmsg' = None
    /\ hal' = [m \in Msgs |-> NewHalMessage]
    /\ \E save \in BOOLEAN : reqChan' = <<CameraList("init", save)>>
    /\ repChan' = <<>>
    /\ notChan' = <<>>
    /\ call' = NoCall
    /\ fired' = <<>>
    /\ UNCHANGED <<nsub, rvars, ev, dsp, ops, copied, overlap, lexc>>
    /\ UNCHANGED <<connected, n_sent, n_lost, emitted, hostlog, m_type,
                   cvars, rtvars, dvars>>

NextFrames ==
    \/ HandleNewFrame
    \/ HandleConnected
    \/ ProcessMessageOther
    \/ CameraCheckMessageTimer
    \/ CleanUpSend
    \/ CleanUpRecv
    \/ ServerCloseEvent
    \/ CameraCleanUp
    \/ CameraReconnect

SpecFrames == Init /\ [][NextFrames]_vars

IsFrame(r) == r.kind = "list" /\ r.tag = "newFrame"
IsAck(r) == r.kind = "list" /\ r.tag = "received"

\* newFrame notifications on the notify path, acknowledgements on the
\* request path.
FramesInFlight == Len(SelectSeq(notChan, IsFrame))
AcksInFlight == Len(SelectSeq(reqChan, IsAck))

\* C34: n_sent is 0 or 1 and at most one newFrame notification is in
\* flight; every acknowledgement on its way is for a frame counted in
\* n_sent, so n_sent never becomes negative; and a frame produced while one
\* is unacknowledged is counted in n_lost and nothing is sent.
C34_FrameFlowControl ==
    [][/\ n_sent' \in {0, 1}
       /\ FramesInFlight' <= 1
       /\ AcksInFlight' <= n_sent'
       /\ (FramesInFlight' = 1 /\ n_sent' = 1) => AcksInFlight' = 0
       /\ n_lost' > n_lost => (n_sent = 1 /\ notChan' = notChan
                                 /\ n_sent' = n_sent)
       /\ FrameSent => (n_sent = 0 /\ n_sent' = 1)
       /\ n_sent' < n_sent
            => \/ (reqChan # <<>> /\ IsAck(Head(reqChan))
                      /\ reqChan' = Tail(reqChan))
               \/ hpc = "closing"]_vars

\* C34's case: after a close and a new connection a frame is on its way,
\* unacknowledged, and the frame produced after it was counted as lost.
C34_Witness ==
    /\ session > 0
    /\ hpc = "ready"
    /\ connected
    /\ n_sent = 1
    /\ n_lost = 1
    /\ FramesInFlight = 1
    /\ AcksInFlight = 0

(***************************************************************************)
(* SignalCounter: connect and disconnect calls in any order.               *)
(***************************************************************************)

Counted(op, o, raised, emitted_) ==
    [op |-> op, obj |-> o, raised |-> raised, emitted |-> emitted_]

\* A variant of connect that notifies on every call.
connectAlways(o) ==
    /\ slots[o] < MaxSlots
    /\ connections' = connections \cup {o}
    /\ slots' = [slots EXCEPT ![o] = @ + 1]
    /\ notified' = Counted("connect", o, FALSE, "True")
    /\ lastNotified' = "True"
    /\ UNCHANGED <<bvars, filmvars, focus, zvars>>

\* SignalCounter.connect(slot), slot a bound method of object o.
connect(o) ==
    /\ slots[o] < MaxSlots
    /\ LET notify == Cardinality(connections) = 0
       IN  /\ connections' = connections \cup {o}
           /\ slots' = [slots EXCEPT ![o] = @ + 1]
           /\ notified' = Counted("connect", o, FALSE,
                                 IF notify THEN "True" ELSE "none")
           /\ lastNotified' = IF notify THEN "True" ELSE lastNotified
    /\ UNCHANGED <<bvars, filmvars, focus, zvars>>

\* SignalCounter.disconnect(slot), slot a bound method of object o.  The
\* dictionary entry is popped before self.signal.disconnect(slot), which
\* raises TypeError when the slot is not connected to the signal.
disconnect(o) ==
    LET notify == Cardinality(connections) > 0
        popped == connections \ {o}
    IN  /\ connections' = popped
        /\ IF slots[o] = 0
           THEN /\ notified' = Counted("disconnect", o, TRUE, "none")
                /\ UNCHANGED <<slots, lastNotified>>
           ELSE /\ slots' = [slots EXCEPT ![o] = @ - 1]
                /\ LET emit == notify /\ Cardinality(popped) = 0
                   IN  /\ notified' = Counted("disconnect", o, FALSE,
                                             IF emit THEN "False" ELSE "none")
                       /\ lastNotified' = IF emit THEN "False"
                                                  ELSE lastNotified
        /\ UNCHANGED <<bvars, filmvars, focus, zvars>>

NextCounter ==
    \/ \E o \in Objects : connect(o)
    \/ \E o \in Objects : disconnect(o)

SpecCounter == Init /\ [][NextCounter]_vars

FilmTypes == {"configuration", "stop film"}

\* "configuration" from timing: self.holdMessage(r_message)
HoldConfiguration ==
    /\ hpc = "pre"
    /\ m_type[rcur] = "configuration"
    /\ Hold

\* startFilm: with remote_save an image writer is created; the camera is
\* started and the hold released in the dispatch.
StartFilm ==
    /\ hpc = "post"
    /\ m_type[rcur] = "configuration"
    /\ ReleaseMessageHold
    /\ hpc' = "ready"
    /\ writer' = IF remote_save THEN "writing" ELSE writer
    /\ closes' = IF remote_save THEN 0 ELSE closes
    /\ UNCHANGED <<lvars, reqChan, repChan, robj, rcur, call, dsp, copied,
                   overlap, lexc>>
    /\ UNCHANGED <<cvars, rtvars, camvars, session, scvars, focus, zvars, remote_save,
                   writer_stopped_timer, n_polls>>

\* "stop film": the camera's parameters are added as a response and the
\* message is held.
HoldStopFilm ==
    /\ hpc = "pre"
    /\ m_type[rcur] = "stop film"
    /\ robj' = [robj EXCEPT ![rcur].responses =
                   Append(@, HalMessageResponse(RemoteName, Len(@) + 1))]
    /\ HoldMessage(rcur)
    /\ UNCHANGED <<lvars, reqChan, notChan, rcur, call, copied, overlap,
                   lexc>>
    /\ UNCHANGED pvars

\* A variant of stopFilm that releases whether the film is saved remotely or
\* not.
StopFilmReleases ==
    /\ hpc = "post"
    /\ m_type[rcur] = "stop film"
    /\ hpc' = "ready"
    /\ ReleaseMessageHold
    /\ UNCHANGED <<lvars, reqChan, repChan, robj, rcur, call, dsp, copied,
                   overlap, lexc>>
    /\ UNCHANGED pvars

\* stopFilm: camera_control.stopFilm(); with remote_save the timer is
\* started and processMessage returns with the message held, without it the
\* hold is released.
StopFilm ==
    /\ hpc = "post"
    /\ m_type[rcur] = "stop film"
    /\ hpc' = "ready"
    /\ IF remote_save
       THEN /\ writer_stopped_timer' = TRUE
            /\ n_polls' = 0
            /\ UNCHANGED <<notChan, r_message, ev, ops>>
       ELSE /\ ReleaseMessageHold
            /\ UNCHANGED <<writer_stopped_timer, n_polls>>
    /\ UNCHANGED <<lvars, reqChan, repChan, robj, rcur, call, dsp, copied,
                   overlap, lexc>>
    /\ UNCHANGED <<cvars, rtvars, camvars, session, scvars, focus, zvars, remote_save,
                   writer, closes>>

\* The image writer has written what it was given: isStopped() is True
\* from now on.
WriterStops ==
    /\ writer = "writing"
    /\ writer' = "stopped"
    /\ UNCHANGED <<lvars, chans, rvars, obs>>
    /\ UNCHANGED <<cvars, rtvars, camvars, session, scvars, focus, zvars, remote_save,
                   closes, writer_stopped_timer, n_polls>>

\* handleStopWriter, the slot of writer_stopped_timer.  With self.writer
\* None the call raises AttributeError in the slot.
HandleStopWriter ==
    /\ hpc = "ready"
    /\ writer_stopped_timer
    /\ CASE writer = "stopped" ->
              /\ closes' = closes + 1
              /\ writer' = "none"
              /\ ReleaseMessageHold
              /\ writer_stopped_timer' = FALSE
              /\ UNCHANGED n_polls
         [] writer = "writing" ->
              /\ n_polls < MaxPolls
              /\ n_polls' = n_polls + 1
              /\ writer_stopped_timer' = TRUE
              /\ UNCHANGED <<notChan, r_message, ev, ops, writer, closes>>
         [] writer = "none" ->
              /\ writer_stopped_timer' = FALSE
              /\ UNCHANGED <<notChan, r_message, ev, ops, writer, closes,
                             n_polls>>
    /\ UNCHANGED <<lvars, reqChan, repChan, robj, hpc, rcur, call, dsp,
                   copied, overlap, lexc>>
    /\ UNCHANGED <<cvars, rtvars, camvars, session, scvars, focus, zvars, remote_save>>

InitFilm ==
    /\ BridgeInit
    /\ data = NoData
    /\ wire = NotBuilt
    /\ wmsg = NoMessage
    /\ hmsg = NoMessage
    /\ back = NoMessage
    /\ connected = FALSE
    /\ n_sent = 0
    /\ n_lost = 0
    /\ fired = <<>>
    /\ emitted = <<>>
    /\ hostlog = <<>>
    /\ m_type \in [Msgs -> FilmTypes]
    /\ session = 0
    /\ CounterIdle
    /\ FocusIdle
    /\ ZaberIdle
    /\ remote_save \in BOOLEAN
    /\ writer = "none"
    /\ closes = 0
    /\ writer_stopped_timer = FALSE
    /\ n_polls = 0

NextFilm ==
    \/ ProcessMessageSend
    \/ ProcessMessageRecv
    \/ CameraCheckMessageTimer
    \/ ServerCheckMessageTimer
    \/ HoldConfiguration
    \/ StartFilm
    \/ HoldStopFilm
    \/ StopFilm
    \/ WriterStops
    \/ HandleStopWriter
    \/ NewMessageExcept
    \/ CleanUpSend
    \/ CleanUpRecv
    \/ ServerCloseEvent
    \/ CameraCleanUp
    \/ CameraReconnect
    \/ ProcessMessageOther

SpecFilm == InitFilm /\ [][NextFilm]_vars

\* A wire message of a "stop film" request is put on one of the paths.
StopFilmSent(m) ==
    /\ m_type[m] = "stop film"
    /\ \/ /\ Len(notChan') = Len(notChan) + 1
          /\ notChan'[Len(notChan')].id = m
       \/ /\ Len(repChan') = Len(repChan) + 1
          /\ repChan'[Len(repChan')].id = m

\* C36: with remote_save the wire message of a held "stop film" request is
\* sent, on the notify path, only by the handleStopWriter call that finds
\* the writer stopped and closes it, the only closeWriter call on that
\* writer; a call that finds it running starts the timer again and sends
\* nothing; without remote_save the hold is released by stopFilm, in the
\* dispatch.
C36_StopFilmReleasedAfterWriterClosed ==
    [][/\ \A m \in Msgs :
            (StopFilmSent(m) /\ r_message = m /\ remote_save)
               => /\ writer = "stopped"
                  /\ writer' = "none"
                  /\ closes = 0
                  /\ closes' = 1
                  /\ hpc = "ready"
                  /\ notChan' = Append(notChan, Pickle(m, robj[m]))
                  /\ repChan' = repChan
       /\ closes' \in {0, 1}
       /\ n_polls' > n_polls
            => /\ writer_stopped_timer'
               /\ UNCHANGED <<chans, r_message>>
       /\ (hpc = "post" /\ hpc' = "ready" /\ m_type[rcur] = "stop film"
             /\ ~remote_save)
            => /\ r_message' = None
               /\ notChan' = Append(notChan, Pickle(rcur, robj[rcur]))
       /\ (hpc = "post" /\ hpc' = "ready" /\ m_type[rcur] = "stop film"
             /\ remote_save)
            => /\ writer_stopped_timer'
               /\ UNCHANGED <<chans, r_message>>]_vars

\* C36's case: the writer was found running, then stopped; it has been
\* closed and the "stop film" message is on the notify path, no longer
\* held.
C36_Witness ==
    /\ remote_save
    /\ n_polls > 0
    /\ closes = 1
    /\ writer = "none"
    /\ r_message = None
    /\ ~writer_stopped_timer
    /\ notChan # <<>>
    /\ IsRemoteHALMessage(notChan[Len(notChan)])
    /\ m_type[notChan[Len(notChan)].id] = "stop film"

(***************************************************************************)
(* axiconFl FocusLockControl: "Check Focus Lock" and "Find Sum".           *)
(***************************************************************************)

\* What getStatus returns: the mode, the lock and signal quality, the lock
\* target and, once a scan has ended, its "message".
Statuses ==
    [locked : BOOLEAN, lock_quality : 0..1, signal_quality : 0..1,
     lock_target : 1..MaxTarget, scan : {"none", "succeeded", "failed"}]

\* tcp_message == "Check Focus Lock": a TCPMessage object compared with a
\* string.  The class does not define __eq__ (its type test is isType), so
\* the comparison is by identity and False.
EqualsString(tcp_message, string) == FALSE

IncRefCount(f, m) ==
    [f EXCEPT !.ref[m] = @ + 1, !.log[m] = Append(@, "inc")]

DecRefCount(f, m) ==
    [f EXCEPT !.ref[m] = @ - 1, !.log[m] = Append(@, "dec")]

\* handleDone(success), reached from handleCheckFocusLock (by = "check") or
\* from handleScanForSum (by = "scan"): the response is added, the lock
\* restarted if it was on, the reference count decremented and
\* current_state cleared.
handleDone(f, success, by) ==
    LET cs == f.current_state
        relocked == IF cs.locked THEN [f EXCEPT !.lock = cs.lock_target]
                                 ELSE f
    IN  [DecRefCount(relocked, cs.message) EXCEPT
            !.done = [by |-> by, success |-> success, message |-> cs.message],
            !.current_state = NoState]

\* handleCheckFocusLock with getStatus returning st.
handleCheckFocusLock(f, st) ==
    IF st.lock_quality # 0
    THEN handleDone(f, TRUE, "check")
    ELSE LET n == f.current_state.num_checks - 1
             f1 == [f EXCEPT !.current_state.num_checks = n]
         IN  IF n = 0
             THEN IF f1.current_state.focus_scan
                       /\ ~f1.current_state.already_scanned
                  THEN [f1 EXCEPT !.scans = @ + 1,
                                  !.scan_for_sum_timer = TRUE]
                  ELSE handleDone(f1, FALSE, "check")
             ELSE [f1 EXCEPT !.check_focus_timer = TRUE]

\* handleScanForSum with getStatus returning st, and st2 in the
\* handleCheckFocusLock it calls.
handleScanForSum(f, st, st2) ==
    IF st.scan # "none"
    THEN LET success == st.scan = "succeeded"
             cs == f.current_state
         IN  IF EqualsString(cs.tcp_message, "Check Focus Lock") /\ success
             THEN handleCheckFocusLock(
                      [f EXCEPT !.lock = cs.lock_target,
                                !.current_state.num_checks = ChecksAfterScan,
                                !.current_state.already_scanned = TRUE],
                      st2)
             ELSE handleDone(f, success, "scan")
    ELSE [f EXCEPT !.scan_for_sum_timer = TRUE]

\* handleTCPMessage, "Check Focus Lock" with the lock on: current_state is
\* recorded, handleCheckFocusLock is called, and then the reference count is
\* incremented.
CheckFocusLock(f, m, st, st2, num_focus_checks, focus_scan) ==
    IncRefCount(
        handleCheckFocusLock(
            [f EXCEPT !.current_state =
                [already_scanned |-> FALSE, locked |-> st.locked,
                 lock_target |-> st.lock_target,
                 num_checks |-> num_focus_checks + 1,
                 message |-> m, tcp_message |-> "Check Focus Lock",
                 focus_scan |-> focus_scan],
                      !.scans = 0],
            st2),
        m)

\* handleTCPMessage, "Find Sum" with no signal: current_state is recorded,
\* the scan and its timer started, and the reference count incremented.
FindSum(f, m, st) ==
    IncRefCount(
        [f EXCEPT !.current_state =
            [NoState EXCEPT !.locked = st.locked,
                            !.lock_target = st.lock_target,
                            !.message = m, !.tcp_message = "Find Sum"],
                  !.scans = 1,
                  !.scan_for_sum_timer = TRUE],
        m)

\* handleTCPMessage(message) for a message that is not a test.  The
\* assertion on current_state fails when a request is outstanding.
HandleTCPMessage ==
    /\ focus.delivered < NTcp
    /\ \E type \in {"Check Focus Lock", "Find Sum"}, st, st2 \in Statuses,
          num_focus_checks \in 0..MaxChecks, focus_scan \in BOOLEAN :
          LET m == focus.delivered + 1
              f == [focus EXCEPT !.delivered = m]
              deferred == IF type = "Check Focus Lock"
                          THEN st.locked
                          ELSE st.signal_quality = 0
          IN  focus' =
                 IF ~deferred \/ focus.current_state # NoState
                 THEN f
                 ELSE IF type = "Check Focus Lock"
                      THEN CheckFocusLock(f, m, st, st2, num_focus_checks,
                                          focus_scan)
                      ELSE FindSum(f, m, st)
    /\ UNCHANGED <<bvars, scvars, filmvars, zvars>>

\* check_focus_timer fires.
CheckFocusTimer ==
    /\ focus.check_focus_timer
    /\ \E st \in Statuses :
          focus' = handleCheckFocusLock(
                       [focus EXCEPT !.check_focus_timer = FALSE], st)
    /\ UNCHANGED <<bvars, scvars, filmvars, zvars>>

\* scan_for_sum_timer fires.
ScanForSumTimer ==
    /\ focus.scan_for_sum_timer
    /\ \E st, st2 \in Statuses :
          focus' = handleScanForSum(
                       [focus EXCEPT !.scan_for_sum_timer = FALSE], st, st2)
    /\ UNCHANGED <<bvars, scvars, filmvars, zvars>>

NextFocus ==
    \/ HandleTCPMessage
    \/ CheckFocusTimer
    \/ ScanForSumTimer

SpecFocus == Init /\ [][NextFocus]_vars

\* A deferred message: its count has been incremented and not decremented
\* since.
Outstanding(m) == focus.log[m] = <<"inc">>

\* C37: the calls on a message's reference count are none, one incRefCount,
\* or one incRefCount followed by one decRefCount, so the count is never
\* below its value on entry; current_state is set exactly while a message
\* is outstanding, and at most one message is.
C37_DeferredMessageRefCount ==
    /\ \A m \in TcpMsgs :
          /\ focus.log[m] \in {<<>>, <<"inc">>, <<"inc", "dec">>}
          /\ focus.ref[m] >= 0
    /\ (focus.current_state # NoState) <=> (\E m \in TcpMsgs : Outstanding(m))
    /\ \A m, n \in TcpMsgs : (Outstanding(m) /\ Outstanding(n)) => m = n

\* The scan_for_sum_timer step of a "Check Focus Lock" request in which
\* the scan is reported as succeeded.
ScanSucceeded ==
    /\ focus.scan_for_sum_timer
    /\ focus.current_state.tcp_message = "Check Focus Lock"
    /\ focus'.done # focus.done \/ focus'.current_state.already_scanned

\* C38: when the scan of a "Check Focus Lock" request succeeds, the lock is
\* restarted at the recorded target and the state marked as scanned; if the
\* request is completed in that step it is by a check of the lock, not by
\* the scan; and no request has more than one scan.
C38_ScanSuccessRestartsLock ==
    [][/\ (ScanSucceeded /\ focus'.done.success)
            => /\ focus'.lock = focus.current_state.lock_target
               /\ focus'.done # focus.done => focus'.done.by = "check"
       /\ focus'.scans <= 1]_vars

(***************************************************************************)
(* ZaberZRS232: coarse and fine moves.  Positions are exact numbers, in     *)
(* microns.                                                                *)
(***************************************************************************)

\* The z values of the calls, some of them outside the limits.
ZValues == (0 - ZMax - 1)..(ZMax + 1)

\* What the stage answers to "move abs": OK, a rejection, or a line with
\* fewer than three fields, on which response_parts[2] raises.
Responses == {"OK", "RJ", "short"}

\* A variant of coerceToLimits without the upper limit.
coerceToLimitsMin(z) ==
    IF z < limits.z_min THEN limits.z_min ELSE z

\* coerceToLimits(z)
coerceToLimits(z) ==
    LET low == IF z < limits.z_min THEN limits.z_min ELSE z
    IN  IF low > limits.z_max THEN limits.z_max ELSE low

\* int(round(z_in_um * self.um_to_unit))
ToUnits(z_in_um) == z_in_um * UnitsPerUm

Move(op, z, abs, response) ==
    [op |-> op, z |-> z, abs |-> abs, units |-> ToUnits(abs),
     ok |-> response = "OK"]

\* zMoveCoarse(z_in_um)
zMoveCoarse(z, response) ==
    LET z_in_um == coerceToLimits(z + fine_position)
    IN  /\ moved' = Move("coarse", z, z_in_um, response)
        /\ coarse_position' = IF response = "OK"
                              THEN z_in_um - fine_position
                              ELSE coarse_position
        /\ UNCHANGED <<fine_position, limits>>
        /\ UNCHANGED <<bvars, scvars, filmvars, focus>>

\* zMoveFine(z_in_um)
zMoveFine(z, response) ==
    LET z_in_um == coerceToLimits(z + coarse_position)
    IN  /\ moved' = Move("fine", z, z_in_um, response)
        /\ fine_position' = IF response = "OK"
                            THEN z_in_um - coarse_position
                            ELSE fine_position
        /\ UNCHANGED <<coarse_position, limits>>
        /\ UNCHANGED <<bvars, scvars, filmvars, focus>>

\* ZaberZRS232.__init__ with limits from the configuration and the stage
\* anywhere it reports to be.
InitZaber ==
    /\ BridgeInit
    /\ data = NoData
    /\ wire = NotBuilt
    /\ wmsg = NoMessage
    /\ hmsg = NoMessage
    /\ back = NoMessage
    /\ CameraIdle
    /\ session = 0
    /\ CounterIdle
    /\ FilmIdle
    /\ FocusIdle
    /\ limits \in {l \in [z_min : 0..1, z_max : 1..ZMax] : l.z_min <= l.z_max}
    /\ coarse_position \in 0..(ZMax + 1)
    /\ fine_position = 0
    /\ moved = NoMove

NextZaber ==
    \/ \E z \in ZValues, response \in Responses : zMoveCoarse(z, response)
    \/ \E z \in ZValues, response \in Responses : zMoveFine(z, response)

SpecZaber == InitZaber /\ [][NextZaber]_vars

\* C39: every position commanded is within the limits; after a move the
\* stage accepted the two stored positions add up to the commanded
\* position, a coarse move leaving fine_position and a fine move leaving
\* coarse_position as it was; after any other move neither has changed.
C39_MovesWithinLimits ==
    [][/\ limits.z_min <= moved'.abs
       /\ moved'.abs <= limits.z_max
       /\ ToUnits(limits.z_min) <= moved'.units
       /\ moved'.units <= ToUnits(limits.z_max)
       /\ moved'.ok
            => /\ coarse_position' + fine_position' = moved'.abs
               /\ moved'.op = "coarse" => fine_position' = fine_position
               /\ moved'.op = "fine" => coarse_position' = coarse_position
       /\ ~moved'.ok
            => /\ coarse_position' = coarse_position
               /\ fine_position' = fine_position]_vars

\* C39's case: after a coarse move that left coarse_position negative, a
\* fine move past the upper limit was coerced to z_max and accepted.
C39_Witness ==
    /\ moved.op = "fine"
    /\ moved.ok
    /\ moved.z + coarse_position > limits.z_max
    /\ moved.abs = limits.z_max
    /\ coarse_position < 0
    /\ fine_position > 0
    /\ coarse_position + fine_position = limits.z_max
====
